---- MODULE Spec2Model ----
(***************************************************************************)
(* A model of the rua tree-walking interpreter (src/src/interpreter.rs,    *)
(* value.rs, environment.rs, rua.rs, main.rs) and of its lexer (lexer.rs). *)
(*                                                                         *)
(* The interpreter is modelled as a machine over its own call stack: every *)
(* activation of a Rust function that calls eval or exec is a frame of the *)
(* variable `stack`, holding the function's arguments, its locals and the  *)
(* program point it stopped at; `ret` is the Result the last callee        *)
(* returned.  One action per Rust function runs the top frame from its     *)
(* program point to its next call or to its return.  The interpreter's own *)
(* fields are env_stack, addr_space and cur_addr.  The operators that      *)
(* model the Rust functions take and return the record S of these          *)
(* variables.                                                              *)
(*                                                                         *)
(* Representation notes                                                    *)
(*  - Numbers are the integers of the f64 domain (exact in the range the   *)
(*    programs use); the operators / // % ^ are outside the model.         *)
(*  - Strings are sequences of one-character strings.                      *)
(*  - cur_addr is kept as the byte offset from the start value             *)
(*    0x0000ffff0000 of interpreter.rs:137, which does not fit the         *)
(*    integers of the model checker; alloc still advances it by 128.       *)
(*  - A HashMap<Value, Value> is a sequence of [key, val] entries with     *)
(*    unique keys; the order in which it is iterated is a permutation      *)
(*    chosen by a seed when the iteration starts.                          *)
(***************************************************************************)
EXTENDS Integers, Sequences, FiniteSets

\* ------------------------------------------------------------------------
\* Bounds of the model
\* ------------------------------------------------------------------------
\* number of repeated calls / targets / sources the program families range over
MaxK == 3
\* seeds for the iteration order of a HashMap
MaxSeed == 1

\* ------------------------------------------------------------------------
\* Value (value.rs 10-24)
\* ------------------------------------------------------------------------
Nil == [t |-> "Nil"]
Bool(x) == [t |-> "Bool", b |-> x]
Str(x) == [t |-> "Str", s |-> x]
Num(x) == [t |-> "Num", n |-> x]
Address(x) == [t |-> "Address", addr |-> x]
ValueList(x) == [t |-> "ValueList", values |-> x]
BuiltinPrint == [t |-> "Print"]

truthy(v) ==
    CASE v.t = "Bool" -> v.b
      [] v.t = "Nil" -> FALSE
      [] OTHER -> TRUE

ty(v) ==
    CASE v.t = "Bool" -> "boolean"
      [] v.t = "Str" -> "string"
      [] v.t = "Num" -> "number"
      [] v.t = "Nil" -> "nil"
      [] v.t = "Address" -> "address"
      [] v.t = "ValueList" -> "valuelist"
      [] v.t = "Print" -> "function"

Digits == <<"0", "1", "2", "3", "4", "5", "6", "7", "8", "9">>

DigitVal(c) == (CHOOSE i \in 1..10 : Digits[i] = c) - 1

IsDigit(c) == \E i \in 1..10 : Digits[i] = c

RECURSIVE ParseDigits(_, _)
ParseDigits(cs, acc) ==
    IF cs = <<>> THEN acc
    ELSE ParseDigits(Tail(cs), acc * 10 + DigitVal(Head(cs)))

\* str::parse::<f64> restricted to the strings whose characters are
\* letters, digits and a sign: an optional sign followed by digits.
\* None is the record [some |-> FALSE].
ParseF64(cs) ==
    LET body == IF cs # <<>> /\ Head(cs) \in {"+", "-"} THEN Tail(cs) ELSE cs
        neg == cs # <<>> /\ Head(cs) = "-"
    IN IF body # <<>> /\ \A i \in 1..Len(body) : IsDigit(body[i])
       THEN [some |-> TRUE, n |-> IF neg THEN 0 - ParseDigits(body, 0)
                                         ELSE ParseDigits(body, 0)]
       ELSE [some |-> FALSE]

\* String::contains
Contains(cs, pat) ==
    \E i \in 1..(Len(cs) - Len(pat) + 1) : SubSeq(cs, i, i + Len(pat) - 1) = pat

number(v) ==
    CASE v.t = "Num" -> [some |-> TRUE, n |-> v.n]
      [] v.t = "Str" ->
            IF Contains(v.s, <<"i", "n", "f">>) \/ Contains(v.s, <<"n", "a", "n">>)
                  \/ Contains(v.s, <<"e">>)
            THEN [some |-> FALSE]
            ELSE ParseF64(v.s)
      [] OTHER -> [some |-> FALSE]

RECURSIVE compress(_)
compress(v) ==
    IF v.t = "ValueList"
    THEN IF v.values = <<>> THEN Nil ELSE compress(v.values[1])
    ELSE v

expand(v) ==
    IF v.t = "ValueList" THEN v.values ELSE <<v>>

\* ------------------------------------------------------------------------
\* Table (value.rs 139-181): entries with unique keys
\* ------------------------------------------------------------------------
TableNew == <<>>

TableIndex(table, i) ==
    IF \E j \in 1..Len(table) : table[j].key = i
    THEN table[CHOOSE j \in 1..Len(table) : table[j].key = i].val
    ELSE Nil

RECURSIVE TableRemove(_, _)
TableRemove(table, key) ==
    IF table = <<>> THEN <<>>
    ELSE IF Head(table).key = key THEN Tail(table)
    ELSE <<Head(table)>> \o TableRemove(Tail(table), key)

\* insert that stores a Nil value like any other value
TableInsertKeepsNil(table, key, val) ==
    IF \E j \in 1..Len(table) : table[j].key = key
    THEN [j \in 1..Len(table) |->
            IF table[j].key = key THEN [key |-> key, val |-> val] ELSE table[j]]
    ELSE Append(table, [key |-> key, val |-> val])

TableInsert(table, key, val) ==
    IF val.t = "Nil" THEN TableRemove(table, key)
    ELSE IF \E j \in 1..Len(table) : table[j].key = key
    THEN [j \in 1..Len(table) |->
            IF table[j].key = key THEN [key |-> key, val |-> val] ELSE table[j]]
    ELSE Append(table, [key |-> key, val |-> val])

TableLen(table) == Len(table)

\* HeapObj (value.rs 184-194)
HeapFunction(parameters, body, closure) ==
    [k |-> "Function", parameters |-> parameters, body |-> body, closure |-> closure]
HeapTable(table) == [k |-> "Table", table |-> table]

HeapObjTy(obj) == IF obj.k = "Function" THEN "function" ELSE "table"

\* ------------------------------------------------------------------------
\* Environment (environment.rs 7-36): a function from names to values
\* ------------------------------------------------------------------------
EnvNew == [x \in {} |-> Nil]

global_env == [x \in {"print"} |-> BuiltinPrint]

EnvDefine(env, name, value) ==
    [x \in (DOMAIN env) \cup {name} |-> IF x = name THEN value ELSE env[x]]

EnvContain(env, name) == name \in DOMAIN env

\* ------------------------------------------------------------------------
\* Abstract syntax as the interpreter matches it (interpreter.rs 149-221,
\* 511-529); every statement carries its source line
\* ------------------------------------------------------------------------
Token(line, tok_type) == [line |-> line, tok_type |-> tok_type]

LitNil == [e |-> "Literal", value |-> [tok_type |-> "NIL"]]
LitTrue == [e |-> "Literal", value |-> [tok_type |-> "TRUE"]]
LitFalse == [e |-> "Literal", value |-> [tok_type |-> "FALSE"]]
LitNum(x) == [e |-> "Literal", value |-> [tok_type |-> "NUMBER", value |-> x]]
LitStr(x) == [e |-> "Literal", value |-> [tok_type |-> "STRING", value |-> x]]
VarName(name) == [v |-> "Name", name |-> name]
VarIndex(prefixexp, exp) == [v |-> "TableIndex", prefixexp |-> prefixexp, exp |-> exp]
ExpVar(var) == [e |-> "Var", var |-> var]
N(name) == ExpVar(VarName(name))
Unary(op, line, right) == [e |-> "Unary", operator |-> Token(line, op), right |-> right]
Binary(left, op, line, right) ==
    [e |-> "Binary", left |-> left, operator |-> Token(line, op), right |-> right]
Call(prefixexp, arguments) ==
    [e |-> "FunctionCall", prefixexp |-> prefixexp, arguments |-> arguments]
Function(parlist, block) ==
    [e |-> "Function", funcbody |-> [parlist |-> parlist, block |-> block]]
Grouping(exp) == [e |-> "Grouping", exp |-> exp]
Field(exp) == [named |-> FALSE, exp |-> exp]
\* the name of a field is kept as the characters of the string key it becomes
NamedField(name, exp) == [named |-> TRUE, name |-> name, exp |-> exp]
TableConstructor(fieldlist) == [e |-> "TableConstructor", fieldlist |-> fieldlist]

Assign(left, right, line) == [s |-> "Assign", left |-> left, right |-> right, line |-> line]
LocalAssign(left, right, line) ==
    [s |-> "LocalAssign", left |-> left, right |-> right, line |-> line]
BreakStmt(line) == [s |-> "Break", line |-> line]
DoBlockEnd(block, line) == [s |-> "DoBlockEnd", block |-> block, line |-> line]
FuncDecl(local, name, parlist, body, line) ==
    [s |-> "FuncDecl", local |-> local, name |-> name, parlist |-> parlist,
     body |-> body, line |-> line]
CallStmt(prefixexp, arguments, line) ==
    [s |-> "FunctionCall", prefixexp |-> prefixexp, arguments |-> arguments, line |-> line]
GenericFor(namelist, table, body, line) ==
    [s |-> "GenericFor", namelist |-> namelist, table |-> table, body |-> body,
     line |-> line]
NumericFor(name, start, end, step, body, line) ==
    [s |-> "NumericFor", name |-> name, start |-> start, end |-> end, step |-> step,
     body |-> body, line |-> line]
IfStmt(condition, then_branch, elseif_branches, has_else, else_branch, line) ==
    [s |-> "IfStmt", condition |-> condition, then_branch |-> then_branch,
     elseif_branches |-> elseif_branches, has_else |-> has_else,
     else_branch |-> else_branch, line |-> line]
WhileStmt(condition, body, line) ==
    [s |-> "WhileStmt", condition |-> condition, body |-> body, line |-> line]
RetStmt(explist, line) == [s |-> "RetStmt", explist |-> explist, line |-> line]


\* ------------------------------------------------------------------------
\* Results: Ok(value) or one of the RuntimeException variants
\* (interpreter.rs 1057-1068).  Panic is a Rust panic (unwrap, index out of
\* bounds, unimplemented!); NoRet says that no callee has returned yet.
\* ------------------------------------------------------------------------
NoRet == [sig |-> "None"]
Ok(v) == [sig |-> "Ok", val |-> v]
RuntimeError(line, message) == [sig |-> "RuntimeError", line |-> line, message |-> message]
RetResult(values) == [sig |-> "RetResult", values |-> values]
Break(line) == [sig |-> "Break", line |-> line]
Panic(what) == [sig |-> "Panic", message |-> what]

\* ------------------------------------------------------------------------
\* The Rust call stack.  S is the record
\*   [stack, ret, env_stack, addr_space, cur_addr, out, call_exit]
\* ------------------------------------------------------------------------
\* the running activation
CurFrame(S) == S.stack[Len(S.stack)]

Callers(S) == SubSeq(S.stack, 1, Len(S.stack) - 1)

\* a panic unwinds every activation
Unwind(S, what) == [S EXCEPT !.stack = <<>>, !.ret = Panic(what)]

\* the running activation, left as `caller`, calls `callee`
Invoke(S, caller, callee) ==
    IF S.ret.sig = "Panic" THEN S
    ELSE [S EXCEPT !.stack = Callers(S) \o <<caller, callee>>, !.ret = NoRet]

\* the running activation returns r to its caller
Return(S, r) ==
    IF S.ret.sig = "Panic" THEN S
    ELSE IF r.sig = "Panic" THEN Unwind(S, r.message)
    ELSE [S EXCEPT !.stack = Callers(S), !.ret = r]

\* the running activation returns whatever `callee` returns
Become(S, callee) ==
    IF S.ret.sig = "Panic" THEN S
    ELSE [S EXCEPT !.stack = Callers(S) \o <<callee>>, !.ret = NoRet]

\* the activations, with the arguments and locals of the Rust function
ExecBlockFrame(block) ==
    [fn |-> "exec_block", pc |-> "start", block |-> block, i |-> 0, depth |-> 0]
ExecFrame(stmt) == [fn |-> "exec", pc |-> "start", stmt |-> stmt]
ExecAssignFrame(left, right, line) ==
    [fn |-> "exec_assign", pc |-> "start", left |-> left, right |-> right, line |-> line,
     i |-> 0, values |-> <<>>, pres_keys |-> [j \in 1..Len(left) |-> <<Nil, Nil>>]]
AssignLocalNamelistFrame(namelist, explist, line) ==
    [fn |-> "assign_local_namelist", pc |-> "start", namelist |-> namelist,
     explist |-> explist, line |-> line, i |-> 0, values |-> <<>>]
ExecGenericForFrame(namelist, table, body, line) ==
    [fn |-> "exec_generic_for", pc |-> "start", namelist |-> namelist, table |-> table,
     body |-> body, line |-> line, entries |-> <<>>]
ExecNumericForFrame(name, start, end, step, body, line) ==
    [fn |-> "exec_numeric_for", pc |-> "start", name |-> name, start |-> start,
     end |-> end, step |-> step, body |-> body, line |-> line]
ExecIfFrame(condition, then_branch, elseif_branches, has_else, else_branch, line) ==
    [fn |-> "exec_if", pc |-> "start", condition |-> condition,
     then_branch |-> then_branch, elseif_branches |-> elseif_branches,
     has_else |-> has_else, else_branch |-> else_branch, line |-> line, j |-> 0]
ExecWhileFrame(condition, body, line) ==
    [fn |-> "exec_while", pc |-> "start", condition |-> condition, body |-> body,
     line |-> line]
ExecReturnFrame(explist, line) ==
    [fn |-> "exec_return", pc |-> "start", explist |-> explist, line |-> line,
     i |-> 0, values |-> <<>>]
EvalFrame(exp, line) == [fn |-> "eval", pc |-> "start", exp |-> exp, line |-> line]
EvalUnaryFrame(op, right, line) ==
    [fn |-> "eval_unary", pc |-> "start", op |-> op, right |-> right, line |-> line]
EvalBinaryFrame(op, left, right, line) ==
    [fn |-> "eval_binary", pc |-> "start", op |-> op, left |-> left, right |-> right,
     line |-> line, lval |-> Nil]
EvalVarFrame(var, line) ==
    [fn |-> "eval_var", pc |-> "start", var |-> var, line |-> line,
     table |-> [some |-> FALSE]]
EvalFuncCallFrame(prefixexp, arguments, line) ==
    [fn |-> "eval_func_call", pc |-> "start", prefixexp |-> prefixexp,
     arguments |-> arguments, line |-> line, rec_n |-> 0, body |-> <<>>]
EvalTableFrame(fieldlist, line) ==
    [fn |-> "eval_table", pc |-> "start", fieldlist |-> fieldlist, line |-> line,
     i |-> 0, table |-> TableNew, num_index |-> 1]
CallPrintFrame(arguments, line) ==
    [fn |-> "call_print", pc |-> "start", arguments |-> arguments, line |-> line,
     i |-> 0, values |-> <<>>]

\* ------------------------------------------------------------------------
\* Interpreter: environment stack and address space (interpreter.rs 19-129)
\* ------------------------------------------------------------------------
StackLimit == 1000
AddrStep == 128

\* the Result and the state left behind
push_env(S, env, line) ==
    [res |-> IF Len(S.env_stack) + 1 >= StackLimit
             THEN RuntimeError(line, <<"exceeds the maximum stack sizes">>)
             ELSE Ok(Nil),
     S |-> [S EXCEPT !.env_stack = Append(@, env)]]

\* pop_env removing two frames
pop_env_twice(S) ==
    IF S.env_stack = <<>> THEN Unwind(S, "unwrap on None")
    ELSE [S EXCEPT !.env_stack = SubSeq(@, 1, Len(@) - 2)]

pop_env(S) ==
    IF S.env_stack = <<>> THEN Unwind(S, "unwrap on None")
    ELSE [S EXCEPT !.env_stack = SubSeq(@, 1, Len(@) - 1)]

define_local(S, name, value) ==
    IF S.env_stack = <<>> THEN Unwind(S, "unwrap on None")
    ELSE [S EXCEPT !.env_stack[Len(S.env_stack)] = EnvDefine(@, name, value)]

\* the first index, from the top, whose frame contains the name, else the
\* bottom frame
define_global_index(env_stack, name) ==
    IF \E i \in 1..Len(env_stack) : EnvContain(env_stack[i], name)
    THEN CHOOSE i \in 1..Len(env_stack) :
            /\ EnvContain(env_stack[i], name)
            /\ \A j \in (i + 1)..Len(env_stack) : ~EnvContain(env_stack[j], name)
    ELSE 1

\* define_global writing into the bottom frame whatever frame binds the name
define_global_bottom(S, name, value) ==
    IF S.env_stack = <<>> THEN S
    ELSE [S EXCEPT !.env_stack[1] = EnvDefine(@, name, value)]

define_global(S, name, value) ==
    IF S.env_stack = <<>> THEN S
    ELSE [S EXCEPT !.env_stack[define_global_index(S.env_stack, name)] =
                       EnvDefine(@, name, value)]

\* Option<&Value>: [some |-> FALSE] is None
get(env_stack, name) ==
    IF \E i \in 1..Len(env_stack) : EnvContain(env_stack[i], name)
    THEN [some |-> TRUE,
          val |-> env_stack[define_global_index(env_stack, name)][name]]
    ELSE [some |-> FALSE]

\* alloc that does not advance cur_addr: the address, and the state with
\* the object placed at it
alloc_in_place(S, obj) ==
    [addr |-> S.cur_addr,
     S |-> [S EXCEPT !.addr_space = [a \in (DOMAIN @) \cup {S.cur_addr} |->
                                        IF a = S.cur_addr THEN obj ELSE @[a]]]]

\* the address and the state left behind
alloc(S, obj) ==
    [addr |-> S.cur_addr,
     S |-> [S EXCEPT !.cur_addr = @ + AddrStep,
                     !.addr_space = [a \in (DOMAIN @) \cup {S.cur_addr} |->
                                        IF a = S.cur_addr THEN obj ELSE @[a]]]]

dereference(S, addr) ==
    IF addr \in DOMAIN S.addr_space
    THEN [some |-> TRUE, obj |-> S.addr_space[addr]]
    ELSE [some |-> FALSE]

\* assign_table inserting into a copy of the table: the Result, and the
\* state as it was
assign_table_of_copy(S, addr, key, val, line) ==
    IF addr \in DOMAIN S.addr_space
    THEN IF S.addr_space[addr].k = "Table"
         THEN [res |-> Ok(Nil), S |-> S]
         ELSE [res |-> RuntimeError(line, <<"attempt to assign a ",
                                            HeapObjTy(S.addr_space[addr]), " value">>),
               S |-> S]
    ELSE [res |-> Panic("unimplemented"), S |-> S]

\* the Result and the state left behind
assign_table(S, addr, key, val, line) ==
    IF addr \in DOMAIN S.addr_space
    THEN IF S.addr_space[addr].k = "Table"
         THEN [res |-> Ok(Nil),
               S |-> [S EXCEPT !.addr_space[addr] =
                                  HeapTable(TableInsert(@.table, key, val))]]
         ELSE [res |-> RuntimeError(line, <<"attempt to assign a ",
                                            HeapObjTy(S.addr_space[addr]), " value">>),
               S |-> S]
    ELSE [res |-> Panic("unimplemented"), S |-> S]

\* the second loop of assign_local_namelist, also the binding of the loop
\* names of exec_generic_for: name i gets values[i], or Nil beyond the values
RECURSIVE define_names(_, _, _, _)
define_names(S, namelist, i, values) ==
    IF i > Len(namelist) THEN S
    ELSE define_names(define_local(S, namelist[i],
                                   IF i <= Len(values) THEN values[i] ELSE Nil),
                      namelist, i + 1, values)

\* ------------------------------------------------------------------------
\* Display and ordering helpers
\* ------------------------------------------------------------------------
RECURSIVE NatToString(_)
NatToString(n) ==
    IF n < 10 THEN <<Digits[n + 1]>>
    ELSE NatToString(n \div 10) \o <<Digits[(n % 10) + 1]>>

\* f64 Display of an integral number
NumToString(n) == IF n < 0 THEN <<"-">> \o NatToString(0 - n) ELSE NatToString(n)

\* Value::string (value.rs 81-87)
string(v) ==
    CASE v.t = "Num" -> [some |-> TRUE, s |-> NumToString(v.n)]
      [] v.t = "Str" -> [some |-> TRUE, s |-> v.s]
      [] OTHER -> [some |-> FALSE]

\* the characters of the model's strings in byte order
Alphabet == <<"+", "-", "0", "1", "2", "3", "4", "5", "6", "7", "8", "9",
              "a", "b", "c", "d", "e", "f", "h", "i", "n", "t", "x", "y", "z">>

CharCode(c) == CHOOSE i \in 1..Len(Alphabet) : Alphabet[i] = c

\* String < String: lexicographic on bytes
RECURSIVE StrLess(_, _)
StrLess(a, b) ==
    IF b = <<>> THEN FALSE
    ELSE IF a = <<>> THEN TRUE
    ELSE IF CharCode(Head(a)) < CharCode(Head(b)) THEN TRUE
    ELSE IF CharCode(Head(a)) > CharCode(Head(b)) THEN FALSE
    ELSE StrLess(Tail(a), Tail(b))

equal(left, right) ==
    CASE left.t = "Num" /\ right.t = "Num" -> left.n = right.n
      [] left.t = "Str" /\ right.t = "Str" -> left.s = right.s
      [] left.t = "Address" /\ right.t = "Address" -> left.addr = right.addr
      [] OTHER -> FALSE

less(left, right, line) ==
    CASE left.t = "Num" /\ right.t = "Num" -> Ok(Bool(left.n < right.n))
      [] left.t = "Str" /\ right.t = "Str" -> Ok(Bool(StrLess(left.s, right.s)))
      [] OTHER -> RuntimeError(line, <<"attempt to compare ", ty(left), " with ", ty(right)>>)

less_equal(left, right, line) ==
    CASE left.t = "Num" /\ right.t = "Num" -> Ok(Bool(left.n <= right.n))
      [] left.t = "Str" /\ right.t = "Str" -> Ok(Bool(~StrLess(right.s, left.s)))
      [] OTHER -> RuntimeError(line, <<"attempt to compare ", ty(left), " with ", ty(right)>>)

greater(left, right, line) == less(right, left, line)

greater_equal(left, right, line) == less_equal(right, left, line)

\* the order in which a HashMap with these entries is iterated: the
\* permutation of the entries selected by the seed
RECURSIVE IterOrder(_, _)
IterOrder(table, seed) ==
    IF table = <<>> THEN <<>>
    ELSE <<table[(seed % Len(table)) + 1]>>
         \o IterOrder(SubSeq(table, 1, seed % Len(table))
                        \o SubSeq(table, (seed % Len(table)) + 2, Len(table)),
                      seed \div Len(table))

Hex == <<"0", "1", "2", "3", "4", "5", "6", "7", "8", "9", "a", "b", "c", "d", "e", "f">>

Hex4(n) == <<Hex[((n \div 4096) % 16) + 1], Hex[((n \div 256) % 16) + 1],
             Hex[((n \div 16) % 16) + 1], Hex[(n % 16) + 1]>>

\* Display for Address, "0x{:012x}" of 0x0000ffff0000 + offset
AddressToString(offset) ==
    <<"0", "x">> \o Hex4((65535 + (offset \div 65536)) \div 65536)
                 \o Hex4((65535 + (offset \div 65536)) % 65536)
                 \o Hex4(offset % 65536)

\* Display for Value (value.rs 114-136); a ValueList joins its elements
\* with ", "
RECURSIVE Display(_), DisplayList(_, _)
Display(v) ==
    CASE v.t = "Bool" -> IF v.b THEN <<"t", "r", "u", "e">> ELSE <<"f", "a", "l", "s", "e">>
      [] v.t = "Nil" -> <<"n", "i", "l">>
      [] v.t = "Num" -> NumToString(v.n)
      [] v.t = "Str" -> v.s
      [] v.t = "Address" -> AddressToString(v.addr)
      [] v.t = "ValueList" -> DisplayList(v.values, 1)
      [] v.t = "Print" -> <<"p", "r", "i", "n", "t">>

DisplayList(values, i) ==
    IF i > Len(values) THEN <<>>
    ELSE Display(values[i]) \o (IF i < Len(values) THEN <<",", " ">> ELSE <<>>)
         \o DisplayList(values, i + 1)

\* ------------------------------------------------------------------------
\* The statement executor (interpreter.rs 141-508).  Every operator takes
\* the state S whose running activation is a frame of the function it
\* models and runs that activation to its next call or to its return.
\* ------------------------------------------------------------------------
\* `for stmt in block.statements { self.exec(stmt)? }`; depth records the
\* depth of env_stack at the call of the statement
exec_block(S) ==
    IF CurFrame(S).pc = "stmt" /\ S.ret.sig # "Ok" THEN Return(S, S.ret)
    ELSE IF CurFrame(S).i + 1 > Len(CurFrame(S).block) THEN Return(S, Ok(Nil))
    ELSE Invoke(S, [CurFrame(S) EXCEPT !.pc = "stmt", !.i = @ + 1,
                                       !.depth = Len(S.env_stack)],
                ExecFrame(CurFrame(S).block[CurFrame(S).i + 1]))

exec_func_decl(S, local, name, parlist, body) ==
    IF local
    THEN Return(define_local(alloc(S, HeapFunction(parlist, body, S.env_stack)).S,
                             name, Address(S.cur_addr)),
                Ok(Nil))
    ELSE Return(define_global(alloc(S, HeapFunction(parlist, body, S.env_stack)).S,
                              name, Address(S.cur_addr)),
                Ok(Nil))

\* Stmt::DoBlockEnd arm of exec
exec_do_block(S) ==
    IF CurFrame(S).pc = "start"
    THEN IF push_env(S, EnvNew, CurFrame(S).stmt.line).res.sig # "Ok"
         THEN Return(push_env(S, EnvNew, CurFrame(S).stmt.line).S,
                     push_env(S, EnvNew, CurFrame(S).stmt.line).res)
         ELSE Invoke(push_env(S, EnvNew, CurFrame(S).stmt.line).S,
                     [CurFrame(S) EXCEPT !.pc = "block"],
                     ExecBlockFrame(CurFrame(S).stmt.block))
    ELSE IF S.ret.sig # "Ok" THEN Return(S, S.ret)
    ELSE Return(pop_env(S), Ok(Nil))

\* Stmt::FunctionCall arm of exec
exec_call_stmt(S) ==
    IF CurFrame(S).pc = "start"
    THEN Invoke(S, [CurFrame(S) EXCEPT !.pc = "call"],
                EvalFuncCallFrame(CurFrame(S).stmt.prefixexp, CurFrame(S).stmt.arguments,
                                  CurFrame(S).stmt.line))
    ELSE IF S.ret.sig # "Ok" THEN Return(S, S.ret)
    ELSE Return(S, Ok(Nil))

exec(S) ==
    LET stmt == CurFrame(S).stmt
    IN CASE stmt.s = "Assign" ->
              Become(S, ExecAssignFrame(stmt.left, stmt.right, stmt.line))
         [] stmt.s = "LocalAssign" ->
              \* exec_local_assign
              Become(S, AssignLocalNamelistFrame(stmt.left, stmt.right, stmt.line))
         [] stmt.s = "Break" -> Return(S, Break(stmt.line))
         [] stmt.s = "DoBlockEnd" -> exec_do_block(S)
         [] stmt.s = "FuncDecl" ->
              exec_func_decl(S, stmt.local, stmt.name, stmt.parlist, stmt.body)
         [] stmt.s = "FunctionCall" -> exec_call_stmt(S)
         [] stmt.s = "GenericFor" ->
              Become(S, ExecGenericForFrame(stmt.namelist, stmt.table, stmt.body, stmt.line))
         [] stmt.s = "NumericFor" ->
              Become(S, ExecNumericForFrame(stmt.name, stmt.start, stmt.end, stmt.step,
                                            stmt.body, stmt.line))
         [] stmt.s = "IfStmt" ->
              Become(S, ExecIfFrame(stmt.condition, stmt.then_branch,
                                    stmt.elseif_branches, stmt.has_else,
                                    stmt.else_branch, stmt.line))
         [] stmt.s = "WhileStmt" ->
              Become(S, ExecWhileFrame(stmt.condition, stmt.body, stmt.line))
         [] stmt.s = "RetStmt" -> Become(S, ExecReturnFrame(stmt.explist, stmt.line))

\* the value of source i of n put behind the values collected so far by
\* assign_local_namelist, with the last source collapsed like the others
namelist_collect_collapsed(values, val, i, n) == Append(values, compress(val))

\* the value of source i of n put behind the values collected so far by
\* assign_local_namelist (interpreter.rs 115-119)
namelist_collect(values, val, i, n) ==
    IF i < n THEN Append(values, compress(val)) ELSE values \o expand(val)

assign_local_namelist(S) ==
    LET f == CurFrame(S)
        values == IF f.pc = "start" THEN <<>>
                  ELSE namelist_collect(f.values, S.ret.val, f.i, Len(f.explist))
    IN IF f.pc = "value" /\ S.ret.sig # "Ok" THEN Return(S, S.ret)
       ELSE IF f.i + 1 <= Len(f.explist)
       THEN Invoke(S, [f EXCEPT !.pc = "value", !.i = @ + 1, !.values = values],
                   EvalFrame(f.explist[f.i + 1], f.line))
       ELSE Return(define_names(S, f.namelist, 1, values), Ok(Nil))

\* the third loop of exec_assign run from the last target to the first:
\* step i stores target Len(f.left) - i + 1
RECURSIVE exec_assign_store_reversed(_, _, _)
exec_assign_store_reversed(S, f, i) ==
    IF i > Len(f.left) THEN Return(S, Ok(Nil))
    ELSE IF f.left[Len(f.left) - i + 1].v = "Name"
    THEN exec_assign_store_reversed(
            define_global(S, f.left[Len(f.left) - i + 1].name,
                          IF Len(f.left) - i + 1 <= Len(f.values)
                          THEN f.values[Len(f.left) - i + 1] ELSE Nil),
            f, i + 1)
    ELSE IF f.pres_keys[Len(f.left) - i + 1][1].t = "Address"
            /\ Len(f.left) - i + 1 <= Len(f.values)
    THEN exec_assign_store_reversed(
            assign_table(S, f.pres_keys[Len(f.left) - i + 1][1].addr,
                         f.pres_keys[Len(f.left) - i + 1][2],
                         f.values[Len(f.left) - i + 1], f.line).S,
            f, i + 1)
    ELSE Unwind(S, "index out of bounds")

\* the third loop of exec_assign from target i on: the stores
RECURSIVE exec_assign_store(_, _, _)
exec_assign_store(S, f, i) ==
    IF i > Len(f.left) THEN Return(S, Ok(Nil))
    ELSE IF f.left[i].v = "Name"
    THEN exec_assign_store(
            define_global(S, f.left[i].name,
                          IF i <= Len(f.values) THEN f.values[i] ELSE Nil),
            f, i + 1)
    ELSE IF f.pres_keys[i][1].t = "Address"
    THEN IF i > Len(f.values) THEN Unwind(S, "index out of bounds")
         ELSE IF assign_table(S, f.pres_keys[i][1].addr, f.pres_keys[i][2],
                              f.values[i], f.line).res.sig # "Ok"
         THEN Return(S, assign_table(S, f.pres_keys[i][1].addr, f.pres_keys[i][2],
                                     f.values[i], f.line).res)
         ELSE exec_assign_store(assign_table(S, f.pres_keys[i][1].addr,
                                             f.pres_keys[i][2], f.values[i], f.line).S,
                                f, i + 1)
    ELSE Return(S, RuntimeError(f.line, <<"attempt to assign a ",
                                          ty(f.pres_keys[i][1]), " value">>))

\* the second loop of exec_assign from target `from` on: prefix and key of
\* the next TableIndex target are evaluated
exec_assign_pres_keys(S, f, from) ==
    IF \E j \in from..Len(f.left) : f.left[j].v = "TableIndex"
    THEN Invoke(S, [f EXCEPT !.pc = "prefix",
                             !.i = CHOOSE j \in from..Len(f.left) :
                                      /\ f.left[j].v = "TableIndex"
                                      /\ \A k \in from..(j - 1) : f.left[k].v = "Name"],
                EvalFrame(f.left[CHOOSE j \in from..Len(f.left) :
                                    /\ f.left[j].v = "TableIndex"
                                    /\ \A k \in from..(j - 1) : f.left[k].v = "Name"
                                ].prefixexp,
                          f.line))
    ELSE exec_assign_store(S, f, 1)

\* the value of source i of n put behind the values collected so far by
\* exec_assign, with the earlier sources pushed as they were evaluated
assign_collect_raw(values, val, i, n) ==
    IF i < n THEN Append(values, val) ELSE values \o expand(val)

\* the value of source i of n put behind the values collected so far by
\* exec_assign (interpreter.rs 232-236)
assign_collect(values, val, i, n) ==
    IF i < n THEN Append(values, compress(val)) ELSE values \o expand(val)

\* the first loop of exec_assign after source f.i
exec_assign_values(S, f, values) ==
    IF f.i + 1 <= Len(f.right)
    THEN Invoke(S, [f EXCEPT !.pc = "value", !.i = @ + 1, !.values = values],
                EvalFrame(f.right[f.i + 1], f.line))
    ELSE exec_assign_pres_keys(S, [f EXCEPT !.values = values], 1)

exec_assign(S) ==
    LET f == CurFrame(S)
    IN IF f.pc = "start" THEN exec_assign_values(S, f, <<>>)
       ELSE IF S.ret.sig # "Ok" THEN Return(S, S.ret)
       ELSE IF f.pc = "value"
       THEN exec_assign_values(S, f, assign_collect(f.values, S.ret.val, f.i,
                                                    Len(f.right)))
       ELSE IF f.pc = "prefix"
       THEN Invoke(S, [f EXCEPT !.pc = "key",
                                !.pres_keys[f.i] = <<compress(S.ret.val), Nil>>],
                   EvalFrame(f.left[f.i].exp, f.line))
       ELSE exec_assign_pres_keys(
                S, [f EXCEPT !.pres_keys[f.i] = <<@[1], compress(S.ret.val)>>], f.i + 1)

\* `for (k, v) in table` of exec_generic_for with the entries still to visit
exec_generic_for_loop(S, f, entries) ==
    IF entries = <<>> THEN Return(S, Ok(Nil))
    ELSE IF push_env(S, EnvNew, f.line).res.sig # "Ok"
    THEN Return(push_env(S, EnvNew, f.line).S, push_env(S, EnvNew, f.line).res)
    ELSE Invoke(define_names(push_env(S, EnvNew, f.line).S, f.namelist, 1,
                             <<Head(entries).key, Head(entries).val>>),
                [f EXCEPT !.pc = "body", !.entries = Tail(entries)],
                ExecBlockFrame(f.body))

\* seed selects the order in which the cloned table is iterated
exec_generic_for(S, seed) ==
    LET f == CurFrame(S)
        res == compress(S.ret.val)
    IN IF f.pc = "start"
       THEN Invoke(S, [f EXCEPT !.pc = "table"], EvalFrame(f.table, f.line))
       ELSE IF f.pc = "table"
       THEN IF S.ret.sig # "Ok" THEN Return(S, S.ret)
            ELSE IF res.t = "Address"
            THEN IF ~dereference(S, res.addr).some THEN Unwind(S, "unwrap on None")
                 ELSE IF dereference(S, res.addr).obj.k = "Table"
                 THEN exec_generic_for_loop(
                          S, f, IterOrder(dereference(S, res.addr).obj.table, seed))
                 ELSE Return(S, RuntimeError(f.line,
                         <<"bad argument to 'pairs' (table expected, got function)">>))
            ELSE Return(S, RuntimeError(f.line,
                    <<"bad argument to 'pairs' (table expected, got ", ty(res), ")">>))
       ELSE IF S.ret.sig = "Ok" THEN exec_generic_for_loop(pop_env(S), f, f.entries)
       ELSE IF S.ret.sig = "Break" THEN Return(pop_env(S), Ok(Nil))
       ELSE Return(S, S.ret)

\* the while statement exec_numeric_for builds (interpreter.rs 389-422)
numeric_for_while(name, end, step, body, line) ==
    WhileStmt(Binary(ExpVar(VarName(name)), "LESSEQUAL", 0, end),
              <<DoBlockEnd(body, line),
                Assign(<<VarName(name)>>,
                       <<Binary(ExpVar(VarName(name)), "PLUS", 0, step)>>, line)>>,
              line)

exec_numeric_for(S) ==
    LET f == CurFrame(S)
    IN IF f.pc = "start"
       THEN IF push_env(S, EnvNew, f.line).res.sig # "Ok"
            THEN Return(push_env(S, EnvNew, f.line).S, push_env(S, EnvNew, f.line).res)
            ELSE Invoke(push_env(S, EnvNew, f.line).S, [f EXCEPT !.pc = "init"],
                        EvalFrame(f.start, f.line))
       ELSE IF S.ret.sig # "Ok" THEN Return(S, S.ret)
       ELSE IF f.pc = "init"
       THEN Invoke(define_local(S, f.name, compress(S.ret.val)),
                   [f EXCEPT !.pc = "while"],
                   ExecFrame(numeric_for_while(f.name, f.end, f.step, f.body, f.line)))
       ELSE Return(pop_env(S), Ok(Nil))

\* a selected branch of exec_if is entered
exec_if_branch(S, f, block) ==
    IF push_env(S, EnvNew, f.line).res.sig # "Ok"
    THEN Return(push_env(S, EnvNew, f.line).S, push_env(S, EnvNew, f.line).res)
    ELSE Invoke(push_env(S, EnvNew, f.line).S, [f EXCEPT !.pc = "branch"],
                ExecBlockFrame(block))

exec_if_elseif_then_else(S, f, j) ==
    IF f.has_else THEN exec_if_branch(S, f, f.else_branch)
    ELSE Return(S, Ok(Nil))

\* the loop over the elseif branches from branch j on, then the else branch
exec_if_elseif(S, f, j) ==
    IF j <= Len(f.elseif_branches)
    THEN Invoke(S, [f EXCEPT !.pc = "elseif", !.j = j],
                EvalFrame(f.elseif_branches[j][1], f.line))
    ELSE IF f.has_else THEN exec_if_branch(S, f, f.else_branch)
    ELSE Return(S, Ok(Nil))

exec_if(S) ==
    LET f == CurFrame(S)
    IN IF f.pc = "start"
       THEN Invoke(S, [f EXCEPT !.pc = "cond"], EvalFrame(f.condition, f.line))
       ELSE IF S.ret.sig # "Ok" THEN Return(S, S.ret)
       ELSE IF f.pc = "cond"
       THEN IF truthy(compress(S.ret.val)) THEN exec_if_branch(S, f, f.then_branch)
            ELSE exec_if_elseif(S, f, 1)
       ELSE IF f.pc = "elseif"
       THEN IF truthy(compress(S.ret.val))
            THEN exec_if_branch(S, f, f.elseif_branches[f.j][2])
            ELSE exec_if_elseif(S, f, f.j + 1)
       ELSE Return(pop_env(S), Ok(Nil))

\* `while cond.truthy()` of exec_while with the current value of cond
exec_while_loop(S, f, cond) ==
    IF ~truthy(cond) THEN Return(S, Ok(Nil))
    ELSE IF push_env(S, EnvNew, f.line).res.sig # "Ok"
    THEN Return(push_env(S, EnvNew, f.line).S, push_env(S, EnvNew, f.line).res)
    ELSE Invoke(push_env(S, EnvNew, f.line).S, [f EXCEPT !.pc = "body"],
                ExecBlockFrame(f.body))

exec_while(S) ==
    LET f == CurFrame(S)
    IN IF f.pc = "start"
       THEN Invoke(S, [f EXCEPT !.pc = "cond"], EvalFrame(f.condition, f.line))
       ELSE IF f.pc = "cond"
       THEN IF S.ret.sig # "Ok" THEN Return(S, S.ret)
            ELSE exec_while_loop(S, f, compress(S.ret.val))
       ELSE IF f.pc = "body"
       THEN IF S.ret.sig = "Ok"
            THEN Invoke(S, [f EXCEPT !.pc = "recond"], EvalFrame(f.condition, f.line))
            ELSE IF S.ret.sig = "Break" THEN Return(pop_env(S), Ok(Nil))
            ELSE Return(S, S.ret)
       ELSE IF S.ret.sig # "Ok" THEN Return(S, S.ret)
       ELSE exec_while_loop(pop_env(S), f, compress(S.ret.val))

exec_return(S) ==
    LET f == CurFrame(S)
        values == IF f.pc = "start" THEN <<>> ELSE Append(f.values, compress(S.ret.val))
    IN IF f.pc = "value" /\ S.ret.sig # "Ok" THEN Return(S, S.ret)
       ELSE IF f.i + 1 <= Len(f.explist)
       THEN Invoke(S, [f EXCEPT !.pc = "value", !.i = @ + 1, !.values = values],
                   EvalFrame(f.explist[f.i + 1], f.line))
       ELSE Return(S, RetResult(values))

\* ------------------------------------------------------------------------
\* The evaluator (interpreter.rs 511-1054)
\* ------------------------------------------------------------------------
eval_literal(value) ==
    CASE value.tok_type = "TRUE" -> Ok(Bool(TRUE))
      [] value.tok_type = "FALSE" -> Ok(Bool(FALSE))
      [] value.tok_type = "NIL" -> Ok(Nil)
      [] value.tok_type = "STRING" -> Ok(Str(value.value))
      [] value.tok_type = "NUMBER" -> Ok(Num(value.value))
      [] OTHER -> Panic("unimplemented")

eval_func_exp(S, funcbody) ==
    Return(alloc(S, HeapFunction(funcbody.parlist, funcbody.block, S.env_stack)).S,
           Ok(Address(S.cur_addr)))

eval(S) ==
    LET exp == CurFrame(S).exp
        line == CurFrame(S).line
    IN CASE exp.e = "Literal" -> Return(S, eval_literal(exp.value))
         [] exp.e = "Unary" -> Become(S, EvalUnaryFrame(exp.operator, exp.right, line))
         [] exp.e = "Binary" ->
              Become(S, EvalBinaryFrame(exp.operator, exp.left, exp.right, line))
         [] exp.e = "FunctionCall" ->
              Become(S, EvalFuncCallFrame(exp.prefixexp, exp.arguments, line))
         [] exp.e = "Var" -> Become(S, EvalVarFrame(exp.var, line))
         [] exp.e = "Function" -> eval_func_exp(S, exp.funcbody)
         [] exp.e = "TableConstructor" -> Become(S, EvalTableFrame(exp.fieldlist, line))
         [] exp.e = "Grouping" -> Become(S, EvalFrame(exp.exp, line))

\* the match on op.tok_type of eval_unary, applied to the operand
eval_unary_apply(S, op, right, line) ==
    CASE op.tok_type = "NOT" -> Ok(Bool(~truthy(right)))
      [] op.tok_type = "MINUS" ->
           IF right.t = "Num" THEN Ok(Num(0 - right.n))
           ELSE IF number(right).some THEN Ok(Num(0 - number(right).n))
           ELSE RuntimeError(op.line,
                   <<"attempt to perform negate operation on a '", ty(right), "'">>)
      [] op.tok_type = "POUND" ->
           IF right.t = "Address"
           THEN IF dereference(S, right.addr).some
                   /\ dereference(S, right.addr).obj.k = "Table"
                THEN Ok(Num(TableLen(dereference(S, right.addr).obj.table)))
                ELSE RuntimeError(line, <<"attempt to get length of a function value">>)
           ELSE IF right.t = "Str" THEN Ok(Num(Len(right.s)))
           ELSE RuntimeError(line, <<"attempt to get length of a ", ty(right), " value">>)
      [] OTHER -> Panic("unimplemented")

eval_unary(S) ==
    LET f == CurFrame(S)
    IN IF f.pc = "start"
       THEN Invoke(S, [f EXCEPT !.pc = "right"], EvalFrame(f.right, f.line))
       ELSE IF S.ret.sig # "Ok" THEN Return(S, S.ret)
       ELSE Return(S, eval_unary_apply(S, f.op, compress(S.ret.val), f.line))

\* the token types eval_binary matches
BinaryOps == {"PLUS", "MINUS", "MUL", "DIV", "FLOORDIV", "MOD", "POW", "DOTDOT", "LESS",
              "LESSEQUAL", "GREATER", "GREATEREQUAL", "EQUALEQUAL", "NOTEQUAL", "AND",
              "OR"}

\* the arms of eval_binary that evaluate both operands, applied to them
eval_binary_apply(op, left, right) ==
    CASE op.tok_type = "PLUS" ->
           IF number(left).some /\ number(right).some
           THEN Ok(Num(number(left).n + number(right).n))
           ELSE RuntimeError(op.line, <<"attempt to add ", ty(left), " with ", ty(right)>>)
      [] op.tok_type = "MINUS" ->
           IF number(left).some /\ number(right).some
           THEN Ok(Num(number(left).n - number(right).n))
           ELSE RuntimeError(op.line,
                             <<"attempt to subtract ", ty(left), " by ", ty(right)>>)
      [] op.tok_type = "MUL" ->
           IF number(left).some /\ number(right).some
           THEN Ok(Num(number(left).n * number(right).n))
           ELSE RuntimeError(op.line, <<"attempt to mul ", ty(left), " with ", ty(right)>>)
      [] op.tok_type = "DOTDOT" ->
           IF string(left).some /\ string(right).some
           THEN Ok(Str(string(left).s \o string(right).s))
           ELSE RuntimeError(op.line,
                             <<"attempt to concat ", ty(left), " with ", ty(right)>>)
      [] op.tok_type = "LESS" -> less(left, right, op.line)
      [] op.tok_type = "LESSEQUAL" -> less_equal(left, right, op.line)
      [] op.tok_type = "GREATER" -> greater(left, right, op.line)
      [] op.tok_type = "GREATEREQUAL" -> greater_equal(left, right, op.line)
      [] op.tok_type = "EQUALEQUAL" -> Ok(Bool(equal(left, right)))
      [] op.tok_type = "NOTEQUAL" -> Ok(Bool(~equal(left, right)))
      [] op.tok_type \in {"AND", "OR"} -> Ok(Bool(truthy(right)))

eval_binary_eager(S) ==
    LET f == CurFrame(S)
    IN IF f.pc = "start"
       THEN Invoke(S, [f EXCEPT !.pc = "left"], EvalFrame(f.left, f.line))
       ELSE IF S.ret.sig # "Ok" THEN Return(S, S.ret)
       ELSE IF f.pc = "left"
       THEN Invoke(S, [f EXCEPT !.pc = "right", !.lval = compress(S.ret.val)],
                   EvalFrame(f.right, f.line))
       ELSE Return(S, eval_binary_apply(f.op, f.lval, compress(S.ret.val)))

eval_binary(S) ==
    LET f == CurFrame(S)
    IN IF f.pc = "start"
       THEN Invoke(S, [f EXCEPT !.pc = "left"], EvalFrame(f.left, f.line))
       ELSE IF S.ret.sig # "Ok" THEN Return(S, S.ret)
       ELSE IF f.pc = "left"
       THEN IF f.op.tok_type \notin BinaryOps THEN Unwind(S, "unimplemented")
            ELSE IF f.op.tok_type = "AND" /\ ~truthy(compress(S.ret.val))
            THEN Return(S, Ok(Bool(FALSE)))
            ELSE IF f.op.tok_type = "OR" /\ truthy(compress(S.ret.val))
            THEN Return(S, Ok(Bool(TRUE)))
            ELSE Invoke(S, [f EXCEPT !.pc = "right", !.lval = compress(S.ret.val)],
                        EvalFrame(f.right, f.line))
       ELSE Return(S, eval_binary_apply(f.op, f.lval, compress(S.ret.val)))

eval_var(S) ==
    LET f == CurFrame(S)
        table_addr == compress(S.ret.val)
    IN IF f.pc = "start"
       THEN IF f.var.v = "Name"
            THEN IF get(S.env_stack, f.var.name).some
                 THEN Return(S, Ok(get(S.env_stack, f.var.name).val))
                 ELSE Return(S, Ok(Nil))
            ELSE Invoke(S, [f EXCEPT !.pc = "prefix"], EvalFrame(f.var.prefixexp, f.line))
       ELSE IF S.ret.sig # "Ok" THEN Return(S, S.ret)
       ELSE IF f.pc = "prefix"
       THEN IF table_addr.t = "Address"
            THEN Invoke(S, [f EXCEPT !.pc = "key",
                                     !.table = dereference(S, table_addr.addr)],
                        EvalFrame(f.var.exp, f.line))
            ELSE Return(S, RuntimeError(f.line,
                    <<"attempt to index a ", ty(table_addr), " value">>))
       ELSE IF f.table.some /\ f.table.obj.k = "Table"
       THEN Return(S, Ok(TableIndex(f.table.obj.table, compress(S.ret.val))))
       ELSE Return(S, RuntimeError(f.line, <<"attempt to index a function value">>))

\* the closure arm of eval_func_call returns r; call_exit records the depth
\* of env_stack the call was entered with (rec_n) and leaves with
closure_exit(S, rec_n, r) ==
    Return([S EXCEPT !.call_exit = [set |-> TRUE, rec_n |-> rec_n,
                                    depth |-> Len(S.env_stack), sig |-> r.sig]],
           r)

closure_enter_unchecked(S, f, obj) ==
    IF push_env([S EXCEPT !.env_stack = @ \o obj.closure], EnvNew, f.line).res.sig # "Ok"
    THEN closure_exit(
            push_env([S EXCEPT !.env_stack = @ \o obj.closure], EnvNew, f.line).S,
            Len(S.env_stack), Ok(Nil))
    ELSE Invoke(push_env([S EXCEPT !.env_stack = @ \o obj.closure], EnvNew, f.line).S,
                [f EXCEPT !.pc = "params", !.rec_n = Len(S.env_stack),
                          !.body = obj.body],
                AssignLocalNamelistFrame(obj.parameters, f.arguments, f.line))

\* the closure arm of eval_func_call up to the binding of the parameters
closure_enter(S, f, obj) ==
    IF push_env([S EXCEPT !.env_stack = @ \o obj.closure], EnvNew, f.line).res.sig # "Ok"
    THEN closure_exit(
            push_env([S EXCEPT !.env_stack = @ \o obj.closure], EnvNew, f.line).S,
            Len(S.env_stack),
            push_env([S EXCEPT !.env_stack = @ \o obj.closure], EnvNew, f.line).res)
    ELSE Invoke(push_env([S EXCEPT !.env_stack = @ \o obj.closure], EnvNew, f.line).S,
                [f EXCEPT !.pc = "params", !.rec_n = Len(S.env_stack),
                          !.body = obj.body],
                AssignLocalNamelistFrame(obj.parameters, f.arguments, f.line))

\* the closure arm of eval_func_call after the body: the pops and the match
closure_leave(S, f, res) ==
    closure_exit(
        IF Len(pop_env(S).env_stack) > f.rec_n
        THEN [pop_env(S) EXCEPT !.env_stack = SubSeq(@, 1, f.rec_n)]
        ELSE pop_env(S),
        f.rec_n,
        IF res.sig = "RetResult" THEN Ok(ValueList(res.values))
        ELSE IF res.sig = "Ok" THEN Ok(Nil)
        ELSE res)

eval_func_call(S) ==
    LET f == CurFrame(S)
        func_name == compress(S.ret.val)
    IN IF f.pc = "start"
       THEN Invoke(S, [f EXCEPT !.pc = "prefix"], EvalFrame(f.prefixexp, f.line))
       ELSE IF f.pc = "prefix"
       THEN IF S.ret.sig # "Ok" THEN Return(S, S.ret)
            ELSE IF func_name.t = "Address"
            THEN IF dereference(S, func_name.addr).some
                    /\ dereference(S, func_name.addr).obj.k = "Function"
                 THEN closure_enter(S, f, dereference(S, func_name.addr).obj)
                 ELSE Return(S, RuntimeError(f.line, <<"attempt to call a table value">>))
            ELSE IF func_name.t = "Print"
            THEN Become(S, CallPrintFrame(f.arguments, f.line))
            ELSE Return(S, RuntimeError(f.line,
                    <<"attempt to call a ", ty(func_name), " value">>))
       ELSE IF f.pc = "params"
       THEN IF S.ret.sig # "Ok" THEN closure_exit(S, f.rec_n, S.ret)
            ELSE Invoke(S, [f EXCEPT !.pc = "body"], ExecBlockFrame(f.body))
       ELSE closure_leave(S, f, S.ret)

\* table.insert of the values of a trailing call, from num_index on
RECURSIVE TableInsertAll(_, _, _)
TableInsertAll(table, values, num_index) ==
    IF values = <<>> THEN table
    ELSE TableInsertAll(TableInsert(table, Num(num_index), Head(values)),
                        Tail(values), num_index + 1)

\* the body of the loop of eval_table for field f.i, which evaluated to val:
\* the frame with table and num_index updated
eval_table_insert(f, val) ==
    IF f.i < Len(f.fieldlist) \/ val.t # "ValueList"
    THEN \* not the trailing field (collapsed), or a trailing field that is
         \* no ValueList (inserted as it is)
         IF f.fieldlist[f.i].named
         THEN [f EXCEPT !.table = TableInsert(@, Str(f.fieldlist[f.i].name),
                                              IF f.i < Len(f.fieldlist)
                                              THEN compress(val) ELSE val)]
         ELSE [f EXCEPT !.table = TableInsert(@, Num(f.num_index),
                                              IF f.i < Len(f.fieldlist)
                                              THEN compress(val) ELSE val),
                        !.num_index = @ + 1]
    ELSE \* the trailing field evaluated to a ValueList
         IF f.fieldlist[f.i].named
         THEN [f EXCEPT !.table = TableInsert(@, Str(f.fieldlist[f.i].name),
                                              IF val.values = <<>> THEN Nil
                                              ELSE val.values[1])]
         ELSE [f EXCEPT !.table = TableInsertAll(@, val.values, f.num_index),
                        !.num_index = @ + Len(val.values)]

\* the loop of eval_table after the field whose insertion left frame g
eval_table_next(S, g) ==
    IF g.i + 1 <= Len(g.fieldlist)
    THEN Invoke(S, [g EXCEPT !.pc = "field", !.i = @ + 1],
                EvalFrame(g.fieldlist[g.i + 1].exp, g.line))
    ELSE Return(alloc(S, HeapTable(g.table)).S, Ok(Address(S.cur_addr)))

eval_table(S) ==
    IF CurFrame(S).pc = "start" THEN eval_table_next(S, CurFrame(S))
    ELSE IF S.ret.sig # "Ok" THEN Return(S, S.ret)
    ELSE eval_table_next(S, eval_table_insert(CurFrame(S), S.ret.val))

\* `for value in values { print!("{}\t", value) }`
RECURSIVE print_values(_, _)
print_values(out, values) ==
    IF values = <<>> THEN out
    ELSE print_values(out \o Display(Head(values)) \o <<"\t">>, Tail(values))

call_print(S) ==
    LET f == CurFrame(S)
        values == IF f.pc = "start" THEN <<>> ELSE Append(f.values, compress(S.ret.val))
    IN IF f.pc = "value" /\ S.ret.sig # "Ok" THEN Return(S, S.ret)
       ELSE IF f.i + 1 <= Len(f.arguments)
       THEN Invoke(S, [f EXCEPT !.pc = "value", !.i = @ + 1, !.values = values],
                   EvalFrame(f.arguments[f.i + 1], f.line))
       ELSE Return([S EXCEPT !.out = print_values(@, values) \o <<"\n">>], Ok(Nil))
\* ------------------------------------------------------------------------
\* The lexer (lexer.rs). A Lexer is a record L: source is the byte vector
\* (one-character strings), current the 0-based read position, line the
\* line counter. tokens is the vector lex builds; fn and pc say which
\* function runs and where; start and quote are the locals of the string
\* functions; res is what lex returned; iter is the parity of the number of
\* loop iterations made so far
\* ------------------------------------------------------------------------
Lexer(source) ==
    [source |-> source, current |-> 0, line |-> 1, tokens |-> <<>>,
     fn |-> "lex", pc |-> "loop", start |-> 0, quote |-> "", res |-> NoRet, iter |-> 0]

LexError(line, message) == [sig |-> "LexError", line |-> line, message |-> message]

\* a token with a payload: STRING, NUMBER, NAME
TokenOf(line, tok_type, value) == [line |-> line, tok_type |-> tok_type, value |-> value]

at_end(L) == L.current >= Len(L.source)

\* self.source[i]
byte(L, i) == L.source[i + 1]

look_ahead(L) ==
    IF L.current + 1 >= Len(L.source) THEN [some |-> FALSE, c |-> ""]
    ELSE [some |-> TRUE, c |-> byte(L, L.current + 1)]

\* Vec::remove(i)
remove(source, i) == SubSeq(source, 1, i) \o SubSeq(source, i + 2, Len(source))

\* self.source[a..b], which panics when a > b or b > len
slice_ok(source, a, b) == a <= b /\ b <= Len(source)
slice(source, a, b) == SubSeq(source, a + 1, b)

\* self.advance(step), counted as one more loop iteration
advance(L, step) == [L EXCEPT !.current = @ + step, !.iter = 1 - @]

is_digit(c) == \E d \in 1..10 : Digits[d] = c

Letters ==
    {"a", "b", "c", "d", "e", "f", "g", "h", "i", "j", "k", "l", "m", "n", "o", "p", "q",
     "r", "s", "t", "u", "v", "w", "x", "y", "z",
     "A", "B", "C", "D", "E", "F", "G", "H", "I", "J", "K", "L", "M", "N", "O", "P", "Q",
     "R", "S", "T", "U", "V", "W", "X", "Y", "Z"}
is_alpha_or_underscore(c) == c \in Letters \/ c = "_"

\* the keywords map of Lexer::new
keywords ==
    <<<<<<"a", "n", "d">>, "AND">>, <<<<"o", "r">>, "OR">>, <<<<"i", "f">>, "IF">>,
      <<<<"t", "h", "e", "n">>, "THEN">>, <<<<"e", "l", "s", "e">>, "ELSE">>,
      <<<<"e", "l", "s", "e", "i", "f">>, "ELSEIF">>,
      <<<<"w", "h", "i", "l", "e">>, "WHILE">>, <<<<"f", "o", "r">>, "FOR">>,
      <<<<"d", "o">>, "DO">>, <<<<"e", "n", "d">>, "END">>,
      <<<<"b", "r", "e", "a", "k">>, "BREAK">>, <<<<"l", "o", "c", "a", "l">>, "LOCAL">>,
      <<<<"t", "r", "u", "e">>, "TRUE">>, <<<<"f", "a", "l", "s", "e">>, "FALSE">>,
      <<<<"i", "n">>, "IN">>, <<<<"n", "o", "t">>, "NOT">>,
      <<<<"f", "u", "n", "c", "t", "i", "o", "n">>, "FUNCTION">>,
      <<<<"n", "i", "l">>, "NIL">>, <<<<"r", "e", "t", "u", "r", "n">>, "RETURN">>>>

\* the arms of lex that push a token of one byte
OneByte ==
    [c \in {"(", ")", "]", "{", "}", ",", "+", "*", "%", "^", "#", ";"} |->
        CASE c = "(" -> "LEFTPAREN" [] c = ")" -> "RIGHTPAREN"
          [] c = "]" -> "RIGHTBRACKET" [] c = "{" -> "LEFTBRACE"
          [] c = "}" -> "RIGHTBRACE" [] c = "," -> "COMMA" [] c = "+" -> "PLUS"
          [] c = "*" -> "MUL" [] c = "%" -> "MOD" [] c = "^" -> "POW"
          [] c = "#" -> "POUND" [] c = ";" -> "SEMICOLON"]

\* the arms of lex that push a token of two bytes when the byte `second`
\* follows, and the token `one` otherwise ("" where lex returns an error)
TwoBytes ==
    [c \in {"/", ".", "=", "~", ">", "<"} |->
        CASE c = "/" -> [second |-> "/", two |-> "FLOORDIV", one |-> "DIV"]
          [] c = "." -> [second |-> ".", two |-> "DOTDOT", one |-> "DOT"]
          [] c = "=" -> [second |-> "=", two |-> "EQUALEQUAL", one |-> "EQUAL"]
          [] c = "~" -> [second |-> "=", two |-> "NOTEQUAL", one |-> ""]
          [] c = ">" -> [second |-> "=", two |-> "GREATEREQUAL", one |-> "GREATER"]
          [] c = "<" -> [second |-> "=", two |-> "LESSEQUAL", one |-> "LESS"]]

\* the escapes of lex_line_string: the byte after the backslash and the
\* byte written
Escapes ==
    [c \in {"n", "t", "\\", "'", "\""} |->
        CASE c = "n" -> "\n" [] c = "t" -> "\t" [] c = "\\" -> "\\"
          [] c = "'" -> "'" [] c = "\"" -> "\""]

\* the loop of lex_long_comment; start is the position after `--[[`
RECURSIVE long_comment_loop(_, _)
long_comment_loop(L, start) ==
    IF at_end(L)
    THEN [some |-> TRUE, L |-> L,
          res |-> LexError(L.line, <<"unfinished long comment (starting at line ",
                                     NumToString(start), ")">>)]
    ELSE IF byte(L, L.current) = "]"
    THEN IF look_ahead(L).some /\ look_ahead(L).c = "]"
         THEN [some |-> TRUE, L |-> [L EXCEPT !.current = @ + 2], res |-> Ok(Nil)]
         ELSE long_comment_loop([L EXCEPT !.current = @ + 1], start)
    ELSE long_comment_loop(
            [L EXCEPT !.line = IF byte(L, L.current) = "\n" THEN @ + 1 ELSE @,
                      !.current = @ + 1], start)

lex_long_comment(L) ==
    IF L.current + 3 >= Len(L.source) THEN [some |-> FALSE, L |-> L, res |-> NoRet]
    ELSE IF \/ byte(L, L.current + 1) # "-"
            \/ byte(L, L.current + 2) # "["
            \/ byte(L, L.current + 3) # "["
    THEN [some |-> FALSE, L |-> L, res |-> NoRet]
    ELSE long_comment_loop([L EXCEPT !.current = @ + 4], L.current + 4)

\* the loop of lex_line_comment
RECURSIVE line_comment_loop(_)
line_comment_loop(L) ==
    IF at_end(L) THEN L
    ELSE IF byte(L, L.current) = "\n" THEN [L EXCEPT !.current = @ + 1]
    ELSE line_comment_loop([L EXCEPT !.current = @ + 1])

lex_line_comment(L) ==
    IF L.current + 1 >= Len(L.source) THEN [taken |-> FALSE, L |-> L]
    ELSE IF byte(L, L.current + 1) # "-" THEN [taken |-> FALSE, L |-> L]
    ELSE [taken |-> TRUE,
          L |-> [line_comment_loop([L EXCEPT !.current = @ + 2]) EXCEPT !.line = @ + 1]]

\* the position after the digits from position i on
RECURSIVE skip_digits(_, _)
skip_digits(L, i) ==
    IF i < Len(L.source) /\ is_digit(byte(L, i)) THEN skip_digits(L, i + 1) ELSE i

\* the number written by digits, a point among them skipped
RECURSIVE digits_value(_, _)
digits_value(num_str, acc) ==
    IF num_str = <<>> THEN acc
    ELSE IF Head(num_str) = "." THEN digits_value(Tail(num_str), acc)
    ELSE digits_value(Tail(num_str),
                      acc * 10 + (CHOOSE d \in 1..10 : Digits[d] = Head(num_str)) - 1)

\* str::parse::<f64> of digits with at most one point between digits: the
\* number units / 10^scale
parse_f64(num_str) ==
    [units |-> digits_value(num_str, 0),
     scale |-> IF \E i \in 1..Len(num_str) : num_str[i] = "."
               THEN Len(num_str) - (CHOOSE i \in 1..Len(num_str) : num_str[i] = ".")
               ELSE 0]

\* lex_number: the end of the lexeme, then the token
number_end(L) ==
    IF /\ skip_digits(L, L.current) < Len(L.source)
       /\ byte(L, skip_digits(L, L.current)) = "."
       /\ skip_digits(L, L.current) + 1 < Len(L.source)
       /\ is_digit(byte(L, skip_digits(L, L.current) + 1))
    THEN skip_digits(L, skip_digits(L, L.current) + 1)
    ELSE skip_digits(L, L.current)

lex_number(L) ==
    [L |-> [L EXCEPT !.current = number_end(L)],
     res |-> Ok(TokenOf(L.line, "NUMBER",
                        parse_f64(slice(L.source, L.current, number_end(L)))))]

\* the position after the letters, underscores and digits from position i on
RECURSIVE skip_word(_, _)
skip_word(L, i) ==
    IF i < Len(L.source) /\ (is_alpha_or_underscore(byte(L, i)) \/ is_digit(byte(L, i)))
    THEN skip_word(L, i + 1) ELSE i

lex_keyword_or_identifier(L) ==
    [L |-> [L EXCEPT !.current = skip_word(L, L.current)],
     res |-> IF \E k \in 1..Len(keywords) :
                    keywords[k][1] = slice(L.source, L.current, skip_word(L, L.current))
             THEN Ok(Token(L.line,
                     keywords[CHOOSE k \in 1..Len(keywords) :
                        keywords[k][1] = slice(L.source, L.current,
                                               skip_word(L, L.current))][2]))
             ELSE Ok(TokenOf(L.line, "NAME",
                             slice(L.source, L.current, skip_word(L, L.current))))]

\* the match of lex on what a string function returned: Ok(tok) is pushed
\* and the loop of lex goes on, Err(e) is returned; a panic unwinds lex
lex_returned(L, r) ==
    IF r.sig = "Ok"
    THEN [L EXCEPT !.tokens = Append(@, r.val), !.fn = "lex", !.pc = "loop"]
    ELSE [L EXCEPT !.fn = "main", !.res = r]

\* one iteration of the loop of lex, or its end
lex(L) ==
    LET c == byte(L, L.current)
        push(tok_type, step) ==
            [advance(L, step) EXCEPT !.tokens = Append(@, Token(L.line, tok_type))]
    IN IF at_end(L)
       THEN [L EXCEPT !.tokens = Append(@, Token(L.line, "EOF")),
                      !.res = Ok(Append(L.tokens, Token(L.line, "EOF"))),
                      !.fn = "main"]
       ELSE CASE c \in DOMAIN OneByte -> push(OneByte[c], 1)
              [] c = "[" ->
                   IF look_ahead(L).some /\ look_ahead(L).c = "["
                   THEN [L EXCEPT !.fn = "lex_long_string", !.pc = "start", !.iter = 1 - @]
                   ELSE push("LEFTBRACKET", 1)
              [] c = "-" ->
                   IF lex_long_comment(L).some
                   THEN IF lex_long_comment(L).res.sig = "Ok"
                        THEN [lex_long_comment(L).L EXCEPT !.iter = 1 - @]
                        ELSE lex_returned(lex_long_comment(L).L, lex_long_comment(L).res)
                   ELSE IF lex_line_comment(L).taken
                   THEN [lex_line_comment(L).L EXCEPT !.iter = 1 - @]
                   ELSE push("MINUS", 1)
              [] c \in DOMAIN TwoBytes ->
                   IF look_ahead(L).some /\ look_ahead(L).c = TwoBytes[c].second
                   THEN push(TwoBytes[c].two, 2)
                   ELSE IF TwoBytes[c].one # "" THEN push(TwoBytes[c].one, 1)
                   ELSE lex_returned(L, LexError(L.line, <<"invalid character '~'">>))
              [] c \in {"'", "\""} ->
                   [L EXCEPT !.fn = "lex_line_string", !.pc = "start", !.quote = c,
                             !.iter = 1 - @]
              [] c \in {" ", "\r", "\t"} -> advance(L, 1)
              [] c = "\n" -> [advance(L, 1) EXCEPT !.line = @ + 1]
              [] OTHER ->
                   IF is_digit(c)
                   THEN lex_returned([lex_number(L).L EXCEPT !.iter = 1 - @],
                                     lex_number(L).res)
                   ELSE IF is_alpha_or_underscore(c)
                   THEN lex_returned([lex_keyword_or_identifier(L).L EXCEPT !.iter = 1 - @],
                                     lex_keyword_or_identifier(L).res)
                   ELSE lex_returned(L, LexError(L.line, <<"unexpected symbol ", c>>))

\* the end of lex_line_string: the STRING token of source[start + 1..current - 1]
line_string_token(L) ==
    IF slice_ok(L.source, L.start + 1, L.current - 1)
    THEN lex_returned(L, Ok(TokenOf(L.line, "STRING",
                                    slice(L.source, L.start + 1, L.current - 1))))
    ELSE lex_returned(L, Panic("slice index"))

\* lex_line_string up to its loop, then one iteration of the loop or its end
lex_line_string(L) ==
    LET c == byte(L, L.current)
    IN IF L.pc = "start"
       THEN IF L.quote \notin {"'", "\""} THEN lex_returned(L, Panic("invalid quote argument"))
            ELSE [L EXCEPT !.start = L.current, !.current = @ + 1, !.pc = "loop"]
       ELSE IF at_end(L) THEN line_string_token(L)
       ELSE IF c = "\n" THEN lex_returned(L, LexError(L.line, <<"unfinished string">>))
       ELSE IF (c = "'" /\ L.quote = "'") \/ (c = "\"" /\ L.quote = "\"")
       THEN line_string_token([L EXCEPT !.current = @ + 1])
       ELSE IF c = "\\"
       THEN IF look_ahead(L).some /\ look_ahead(L).c \in DOMAIN Escapes
            THEN [advance(L, 2) EXCEPT
                    !.source = [remove(@, L.current) EXCEPT
                                   ![L.current + 1] = Escapes[look_ahead(L).c]]]
            ELSE advance(L, 1)
       ELSE advance(L, 1)

\* lex_long_string up to its loop, then one iteration of the loop or its end
lex_long_string(L) ==
    IF L.pc = "start"
    THEN [L EXCEPT !.start = L.current, !.current = @ + 2, !.pc = "loop",
                   !.source = IF L.current + 2 < Len(@) /\ @[L.current + 3] = "\n"
                              THEN remove(@, L.current + 2) ELSE @]
    ELSE IF at_end(L) THEN lex_returned(L, LexError(L.line, <<"unterminated string">>))
    ELSE IF byte(L, L.current) = "]"
    THEN IF look_ahead(L).some /\ look_ahead(L).c = "]"
         THEN IF slice_ok(L.source, L.start + 2, L.current)
              THEN lex_returned([L EXCEPT !.current = @ + 2],
                                Ok(TokenOf(L.line, "STRING",
                                           slice(L.source, L.start + 2, L.current))))
              ELSE lex_returned([L EXCEPT !.current = @ + 2], Panic("slice index"))
         ELSE [L EXCEPT !.iter = 1 - @]
    ELSE [advance(L, 1) EXCEPT !.line = IF byte(L, L.current) = "\n" THEN @ + 1 ELSE @]
\* ------------------------------------------------------------------------
\* The programs the driver is run on.  A program is named by a descriptor
\* [fam, a, b, c, k, m, n]; Block(p) is its top-level block.
\* ------------------------------------------------------------------------
Vals == <<Num(1), Num(2), Str(<<"a">>)>>
Lits == <<LitNum(1), LitNum(2), LitStr(<<"a">>)>>
ValIdx == 1..Len(Vals)

TargetNames == <<"x1", "x2", "x3", "x4", "x5", "x6", "x7", "x8">>

Set(name, exp, line) == Assign(<<VarName(name)>>, <<exp>>, line)
Local(name, exp, line) == LocalAssign(<<name>>, <<exp>>, line)
Call0(name) == Call(N(name), <<>>)

\* local function counter() local n = 0; return function() n = n + 1; return n end end
\* local c = counter(); r = c() (k times); x1, x2, x3 = c(), c(), c()
CounterBlock(p) ==
    <<FuncDecl(TRUE, "counter", <<>>,
        <<Local("n", LitNum(0), 1),
          RetStmt(<<Function(<<>>,
                      <<Set("n", Binary(N("n"), "PLUS", 1, LitNum(1)), 1),
                        RetStmt(<<N("n")>>, 1)>>)>>, 1)>>, 1),
      Local("c", Call0("counter"), 2)>>
    \o [j \in 1..p.k |-> Set("r", Call0("c"), 2 + j)]
    \o <<Assign(<<VarName("x1"), VarName("x2"), VarName("x3")>>,
                <<Call0("c"), Call0("c"), Call0("c")>>, 3 + p.k)>>

\* a closure c whose body reads the free name x, called where the caller
\* binds x in a local frame
ScopeBlock(p) ==
    LET retx == <<RetStmt(<<N("x")>>, 1)>>
    IN CASE p.k = 0 ->
              <<FuncDecl(FALSE, "c", <<>>, retx, 1),
                DoBlockEnd(<<Local("x", Lits[p.a], 2), Set("r", Call0("c"), 2)>>, 2)>>
         [] p.k = 1 ->
              <<FuncDecl(FALSE, "c", <<>>, retx, 1),
                FuncDecl(FALSE, "caller", <<>>,
                    <<Local("x", Lits[p.a], 2), RetStmt(<<Call0("c")>>, 2)>>, 2),
                Set("r", Call0("caller"), 3)>>
         [] p.k = 2 ->
              <<FuncDecl(TRUE, "mk", <<>>,
                    <<Local("y", LitNum(1), 1), RetStmt(<<Function(<<>>, retx)>>, 1)>>, 1),
                Local("c", Call0("mk"), 2),
                DoBlockEnd(<<Local("x", Lits[p.a], 3), Set("r", Call0("c"), 3)>>, 3)>>

\* x = a; function f(p) return p end; x = b; r = f(x)
ArgEnvBlock(p) ==
    LET retp == <<RetStmt(<<N("p")>>, 2)>>
    IN CASE p.k = 0 ->
              <<Set("x", Lits[p.a], 1),
                FuncDecl(FALSE, "f", <<"p">>, retp, 2),
                Set("x", Lits[p.b], 3),
                Set("r", Call(N("f"), <<N("x")>>), 4)>>
         [] p.k = 1 ->
              <<Local("x", Lits[p.a], 1),
                FuncDecl(TRUE, "f", <<"p">>, retp, 2),
                DoBlockEnd(<<Local("x", Lits[p.b], 3),
                             Set("r", Call(N("f"), <<N("x")>>), 3)>>, 3),
                Set("done", LitTrue, 4)>>

\* a function whose body breaks outside any loop of its own
BrkBlock(p) ==
    LET brk == IF p.k = 2
               THEN <<IfStmt(LitTrue, <<BreakStmt(1)>>, <<>>, FALSE, <<>>, 1)>>
               ELSE <<BreakStmt(1)>>
        loop == WhileStmt(Binary(N("i"), "LESS", 3, LitNum(3)),
                          <<Set("i", Binary(N("i"), "PLUS", 3, LitNum(1)), 3),
                            CallStmt(N("f"), <<>>, 3)>>, 3)
    IN <<FuncDecl(FALSE, "f", <<>>, brk, 1), Set("i", LitNum(0), 2)>>
       \o (IF p.k = 1 THEN <<CallStmt(N("f"), <<>>, 3)>> ELSE <<loop>>)
       \o <<Set("done", LitTrue, 4)>>

\* one block, branch or loop whose body declares local x, followed by r = x
LeakBlock(p) ==
    LET lx == Local("x", Lits[p.a], 1)
        tbl == TableConstructor(<<Field(LitNum(10)), Field(LitNum(20))>>)
        brk_in_do == DoBlockEnd(<<BreakStmt(1)>>, 1)
        brk_in_if == IfStmt(LitTrue, <<BreakStmt(1)>>, <<>>, FALSE, <<>>, 1)
        first ==
          CASE p.k = 0 -> WhileStmt(LitTrue, <<lx, brk_in_do>>, 1)
            [] p.k = 1 -> WhileStmt(LitTrue, <<lx, brk_in_if>>, 1)
            [] p.k = 2 -> NumericFor("x", LitNum(1), LitNum(3), LitNum(1), <<BreakStmt(1)>>, 1)
            [] p.k = 3 -> GenericFor(<<"k", "v">>, tbl, <<lx, brk_in_do>>, 1)
            [] p.k = 4 -> WhileStmt(LitTrue, <<lx, BreakStmt(1)>>, 1)
            [] p.k = 5 -> DoBlockEnd(<<lx>>, 1)
            [] p.k = 6 -> IfStmt(LitFalse, <<>>, <<<<LitTrue, <<lx>>>>>>, TRUE, <<>>, 1)
            [] p.k = 7 -> NumericFor("x", LitNum(1), LitNum(2), LitNum(1), <<lx>>, 1)
            [] p.k = 8 -> GenericFor(<<"k", "x">>, tbl, <<lx>>, 1)
            [] p.k = 9 -> GenericFor(<<"k", "v">>, tbl, <<lx, BreakStmt(1)>>, 1)
            [] p.k = 10 -> IfStmt(LitFalse, <<>>, <<>>, TRUE, <<lx>>, 1)
    IN <<first, Set("r", N("x"), 2)>>
LeakVariants == 0..10

\* closure calls that end normally, by Return and by Error
CallErrBlock(p) ==
    CASE p.k = 0 ->  \* error while binding the arguments
           <<FuncDecl(FALSE, "f", <<"p">>, <<RetStmt(<<N("p")>>, 1)>>, 1),
             Set("r", Call(N("f"), <<Binary(Lits[p.a], "PLUS", 2, LitNil)>>), 2)>>
      [] p.k = 1 ->  \* error while binding the arguments, in a call statement
           <<FuncDecl(TRUE, "f", <<"p">>, <<>>, 1),
             CallStmt(N("f"), <<Call0("g")>>, 2)>>
      [] p.k = 2 ->  \* error in the body
           <<FuncDecl(FALSE, "f", <<>>,
                <<DoBlockEnd(<<Local("x", Binary(LitNil, "PLUS", 1, Lits[p.a]), 1)>>, 1)>>, 1),
             CallStmt(N("f"), <<>>, 2)>>
      [] p.k = 3 ->  \* normal completion
           <<FuncDecl(FALSE, "f", <<"p">>, <<Local("q", N("p"), 1)>>, 1),
             CallStmt(N("f"), <<Lits[p.a]>>, 2)>>
      [] p.k = 4 ->  \* Return from nested blocks
           <<FuncDecl(FALSE, "f", <<"p">>,
                <<DoBlockEnd(<<DoBlockEnd(<<RetStmt(<<N("p")>>, 1)>>, 1)>>, 1)>>, 1),
             Set("r", Call(N("f"), <<Lits[p.a]>>), 2)>>
CallErrVariants == 0..4

\* function f() return b, c end; function g() return f() end; local x1, x2, x3 = g()
RetFwdBlock(p) ==
    <<FuncDecl(FALSE, "f", <<>>, <<RetStmt(<<Lits[p.b], Lits[p.c]>>, 1)>>, 1),
      FuncDecl(FALSE, "g", <<>>,
          <<RetStmt((IF p.k = 1 THEN <<Lits[p.a]>> ELSE <<>>) \o <<Call0("f")>>, 2)>>, 2),
      LocalAssign(<<"x1", "x2", "x3">>, <<Call0("g")>>, 3)>>

\* f returns the first n of a, b, c; h returns c, a.
\* local x1, ..., xk = h(), ... (m times), last   where last is f() when
\* fam = "multi" and the literal a when fam = "multilit"
MultiBlock(p) ==
    <<FuncDecl(FALSE, "f", <<>>,
          <<RetStmt(SubSeq(<<Lits[p.a], Lits[p.b], Lits[p.c]>>, 1, p.n), 1)>>, 1),
      FuncDecl(FALSE, "h", <<>>, <<RetStmt(<<Lits[p.c], Lits[p.a]>>, 2)>>, 2),
      LocalAssign(SubSeq(TargetNames, 1, p.k),
                  [i \in 1..p.m |-> Call0("h")]
                    \o <<IF p.fam = "multi" THEN Call0("f") ELSE Lits[p.a]>>, 3)>>

\* function f() return a, b end; local x1, x2 = (f())
GroupBlock(p) ==
    LET g == IF p.k = 1 THEN Grouping(Grouping(Call0("f"))) ELSE Grouping(Call0("f"))
    IN <<FuncDecl(FALSE, "f", <<>>, <<RetStmt(<<Lits[p.a], Lits[p.b]>>, 1)>>, 1),
         LocalAssign(<<"x1", "x2">>, <<g>>, 2)>>

\* stores of call results into tables, variables and parameters
StoresBlock(p) ==
    LET f == FuncDecl(FALSE, "f", <<>>, <<RetStmt(<<Lits[p.a], Lits[p.b]>>, 1)>>, 1)
        g == FuncDecl(FALSE, "g", <<"p", "q">>,
                      <<Set("keep", Function(<<>>, <<>>), 2),
                        RetStmt(<<Call0("f"), Grouping(Call0("f"))>>, 2)>>, 2)
        t(key) == ExpVar(VarIndex(N("t"), key))
    IN CASE p.k = 0 ->
              <<f, Local("t", TableConstructor(<<Field(Call0("f")),
                                                  Field(Grouping(Call0("f")))>>), 2),
                Assign(<<VarIndex(N("t"), Call0("f"))>>, <<Call0("f")>>, 3),
                Set("r", t(Lits[p.a]), 4)>>
         [] p.k = 1 ->
              <<f, Local("t", TableConstructor(<<NamedField(<<"x">>, Call0("f"))>>), 2),
                Assign(<<VarIndex(N("t"), LitStr(<<"y">>)),
                         VarIndex(N("t"), LitStr(<<"z">>))>>,
                       <<Grouping(Call0("f"))>>, 3),
                GenericFor(<<"k", "v">>, N("t"), <<Set("r", N("v"), 4)>>, 4)>>
         [] p.k = 2 ->
              <<f, Assign(<<VarName("r"), VarName("s")>>,
                          <<Grouping(Call0("f")), Call0("f")>>, 2),
                Set("r", Grouping(Call0("f")), 3)>>
         [] p.k = 3 ->
              <<f, g, RetStmt(<<Call(N("g"), <<Call0("f")>>)>>, 3)>>
         [] p.k = 4 ->
              <<f, g, Local("h", Function(<<"p">>, <<RetStmt(<<N("p")>>, 3)>>), 3),
                Assign(<<VarName("r"), VarName("s")>>,
                       <<Call(N("h"), <<Grouping(Call(N("g"), <<>>))>>)>>, 4),
                CallStmt(N("print"), <<N("r"), Call0("g")>>, 5)>>
         [] p.k = 5 ->
              <<f, NumericFor("i", Call0("f"), Call0("f"), Call0("f"),
                              <<Set("r", N("i"), 2)>>, 2),
                BreakStmt(3)>>
         [] p.k = 6 ->
              <<f, Local("t", TableConstructor(<<Field(Call0("f"))>>), 2),
                Set("r", Unary("POUND", 3, N("t")), 3),
                Assign(<<VarIndex(N("t"), LitStr(<<"y">>)),
                         VarIndex(N("t"), LitStr(<<"z">>))>>,
                       <<Unary("MINUS", 4, Lits[p.a])>>, 4)>>
StoresVariants == 0..6

\* the operands of the equality programs: nil, true, false, 1, 2, "a", the
\* table t and the table u
EqOperands == <<LitNil, LitTrue, LitFalse, LitNum(1), LitNum(2), LitStr(<<"a">>),
                N("t"), N("u")>>

\* local t, u = {}, {}; r = (e1 == e2); s = (e1 ~= e2)
EqBlock(p) ==
    <<LocalAssign(<<"t", "u">>, <<TableConstructor(<<>>), TableConstructor(<<>>)>>, 1),
      Set("r", Binary(EqOperands[p.a], "EQUALEQUAL", 2, EqOperands[p.b]), 2),
      Set("s", Binary(EqOperands[p.a], "NOTEQUAL", 3, EqOperands[p.b]), 3)>>

\* calls of print.  f returns the first n of a, b, c.
\*   k = 0: r = 0; r = print(the first n of a, b, c)
\*   k = 1: r = 0; r = print(1 + 2 * 3)
\*   k = 2: r = 0; r = print(f())
\*   k = 3: r = 0; r = print(f(), c)
\*   k = 4: r = 0; r = print(c, f())
PrintBlock(p) ==
    LET f == FuncDecl(FALSE, "f", <<>>,
                 <<RetStmt(SubSeq(<<Lits[p.a], Lits[p.b], Lits[p.c]>>, 1, p.n), 1)>>, 1)
        args ==
          CASE p.k = 0 -> SubSeq(<<Lits[p.a], Lits[p.b], Lits[p.c]>>, 1, p.n)
            [] p.k = 1 -> <<Binary(LitNum(1), "PLUS", 3,
                                   Binary(LitNum(2), "MUL", 3, LitNum(3)))>>
            [] p.k = 2 -> <<Call0("f")>>
            [] p.k = 3 -> <<Call0("f"), Lits[p.c]>>
            [] p.k = 4 -> <<Lits[p.c], Call0("f")>>
    IN <<f, Set("r", LitNum(0), 2), Set("r", Call(N("print"), args), 3)>>

\* multi-assignments with more targets than values
\*   local t = {y = a}; x1 = a
\*   k = 0: x1, t.y = b        k = 1: t.y, x1 = b
\*   k = 2: x1, t.y = b, nil   k = 3: x1, t.y, t.z = b, c
\*   r = t.y
TgtBlock(p) ==
    LET t_y == VarIndex(N("t"), LitStr(<<"y">>))
        t_z == VarIndex(N("t"), LitStr(<<"z">>))
        asg ==
          CASE p.k = 0 -> Assign(<<VarName("x1"), t_y>>, <<Lits[p.b]>>, 3)
            [] p.k = 1 -> Assign(<<t_y, VarName("x1")>>, <<Lits[p.b]>>, 3)
            [] p.k = 2 -> Assign(<<VarName("x1"), t_y>>, <<Lits[p.b], LitNil>>, 3)
            [] p.k = 3 -> Assign(<<VarName("x1"), t_y, t_z>>, <<Lits[p.b], Lits[p.c]>>, 3)
    IN <<Local("t", TableConstructor(<<NamedField(<<"y">>, Lits[p.a])>>), 1),
         Set("x1", Lits[p.a], 2),
         asg,
         Set("r", ExpVar(t_y), 4)>>

\* generic for over a table with the n entries inserted in the order 1..n
\*   k = 0: local t = {1, ..., n}
\*   k = 1, 2: local t = {}; t.x, t.y, t.z = 1, ..., n  (the first n of them)
\*   s, cnt = 0, 0
\*   for key, v in t do s = s * 10 + v; cnt = cnt + 1 end
\* where the body for k = 2 also deletes the entry t.z
IterKeys == <<"x", "y", "z">>
IterBlock(p) ==
    LET nums == [i \in 1..p.n |-> LitNum(i)]
        body == <<Set("s", Binary(Binary(N("s"), "MUL", 4, LitNum(10)), "PLUS", 4,
                                  N("v")), 4),
                  Set("cnt", Binary(N("cnt"), "PLUS", 4, LitNum(1)), 4)>>
                \o (IF p.k = 2
                    THEN <<Assign(<<VarIndex(N("t"), LitStr(<<"z">>))>>, <<LitNil>>, 4)>>
                    ELSE <<>>)
    IN (IF p.k = 0
        THEN <<Local("t", TableConstructor([i \in 1..p.n |-> Field(nums[i])]), 1),
               Set("u", LitNum(0), 2)>>
        ELSE <<Local("t", TableConstructor(<<>>), 1),
               Assign([i \in 1..p.n |-> VarIndex(N("t"), LitStr(<<IterKeys[i]>>))],
                      nums, 2)>>)
       \o <<Assign(<<VarName("s"), VarName("cnt")>>, <<LitNum(0), LitNum(0)>>, 3),
            GenericFor(<<"key", "v">>, N("t"), body, 4)>>

\* the block that, run on a stack of depth 1, runs `body` on a stack of
\* depth d: `do body end` runs body one frame deeper, and
\* `local function g() body end; g()` on a stack of depth e runs body on
\* the e frames of the stack, the e frames g captured and the frame of the
\* call, depth 2e + 1
RECURSIVE DeepNest(_, _)
DeepNest(d, body) ==
    IF d <= 1 THEN body
    ELSE IF d % 2 = 1
    THEN DeepNest((d - 1) \div 2,
                  <<FuncDecl(TRUE, "g", <<>>, body, d), CallStmt(N("g"), <<>>, d)>>)
    ELSE DeepNest(d - 1, <<DoBlockEnd(body, d)>>)

\* the depths the deep programs run their innermost block at: around the
\* limit of push_env, and one far beyond it that a call reaches from depth
\* 765 by appending the 765 captured frames
DeepTargets == {StackLimit - 1, StackLimit, StackLimit + 1, 1531}

\* r = 1 nested to run at depth n; done = true
DeepBlock(p) == DeepNest(p.n, <<Set("r", LitNum(1), 1)>>) \o <<Set("done", LitTrue, 2)>>

\* assignments `x = e` to a name
\*   k = 0: x = b; r = x                                      (x bound nowhere)
\*   k = 1: do local x = a; do local y = c; x = b; r = x end; s = x end
\*   k = 2: x = a; do local x = c; do x = b; r = x end end; s = x
\*   k = 3: x = a; function f() x = b; return x end; r = f(); s = x
\*   k = 4: function f() return b, c end; do local x = a; x = f(); r = x end
AsgBlock(p) ==
    LET xb == Set("x", Lits[p.b], 2)
        rx == Set("r", N("x"), 2)
        sx == Set("s", N("x"), 3)
    IN CASE p.k = 0 -> <<xb, rx>>
         [] p.k = 1 ->
              <<DoBlockEnd(<<Local("x", Lits[p.a], 1),
                             DoBlockEnd(<<Local("y", Lits[p.c], 1), xb, rx>>, 2),
                             sx>>, 3)>>
         [] p.k = 2 ->
              <<Set("x", Lits[p.a], 1),
                DoBlockEnd(<<Local("x", Lits[p.c], 1),
                             DoBlockEnd(<<xb, rx>>, 2)>>, 2),
                sx>>
         [] p.k = 3 ->
              <<Set("x", Lits[p.a], 1),
                FuncDecl(FALSE, "f", <<>>, <<xb, RetStmt(<<N("x")>>, 2)>>, 2),
                Set("r", Call0("f"), 3),
                sx>>
         [] p.k = 4 ->
              <<FuncDecl(FALSE, "f", <<>>, <<RetStmt(<<Lits[p.b], Lits[p.c]>>, 1)>>, 1),
                DoBlockEnd(<<Local("x", Lits[p.a], 2), Set("x", Call0("f"), 2), rx>>, 2)>>

\* three stores to a table.  A store is coded by a number o: its key is
\* TblKeys[(o % 2) + 1] and its value is nil for o < 2 and the literal
\* Lits[o \div 2] otherwise
TblKeys == <<LitNum(1), LitStr(<<"x">>)>>
TblStores == 0..5
OpKey(o) == (o % 2) + 1
OpVal(o) == o \div 2

\* local t = {}
\* t[k] = v; r1, q1, n1 = t[k], t[the other key], #t     (for each store)
TblBlock(p) ==
    LET t(i) == VarIndex(N("t"), TblKeys[i])
        store(o, j) ==
          <<Assign(<<t(OpKey(o))>>, <<IF OpVal(o) = 0 THEN LitNil ELSE Lits[OpVal(o)]>>,
                   2 * j),
            Assign(<<VarName(TargetNames[j]), VarName(TargetNames[j + 3]),
                     VarName(<<"n1", "n2", "n3">>[j])>>,
                   <<ExpVar(t(OpKey(o))), ExpVar(t(3 - OpKey(o))),
                     Unary("POUND", 2 * j + 1, N("t"))>>, 2 * j + 1)>>
    IN <<Local("t", TableConstructor(<<>>), 1)>>
       \o store(p.a, 1) \o store(p.b, 2) \o store(p.c, 3)

\* two names for one table, and two tables with the same contents
\*   local a = {x = va}; local b = a      (k = 4: local b = {x = va})
\*   k = 0, 4: a.x = vb; r = b.x          k = 1: b.x = vb; r = a.x
\*   k = 2: function f(t) t.x = vb end; f(a); r = b.x
\*   k = 3: function f() a.x = vb end; f(); r = b.x
\*   s = (a == b)
RefBlock(p) ==
    LET tab == TableConstructor(<<NamedField(<<"x">>, Lits[p.a])>>)
        x(name) == VarIndex(N(name), LitStr(<<"x">>))
        store(name) == Assign(<<x(name)>>, <<Lits[p.b]>>, 3)
    IN <<Local("a", tab, 1),
         Local("b", IF p.k = 4 THEN tab ELSE N("a"), 2),
         CASE p.k = 2 -> FuncDecl(FALSE, "f", <<"t">>, <<store("t")>>, 3)
           [] p.k = 3 -> FuncDecl(FALSE, "f", <<>>, <<store("a")>>, 3)
           [] OTHER -> Set("u", LitNum(0), 3),
         CASE p.k = 1 -> store("b")
           [] p.k = 2 -> CallStmt(N("f"), <<N("a")>>, 4)
           [] p.k = 3 -> CallStmt(N("f"), <<>>, 4)
           [] OTHER -> store("a"),
         Set("r", ExpVar(x(IF p.k = 1 THEN "a" ELSE "b")), 5),
         Set("s", Binary(N("a"), "EQUALEQUAL", 6, N("b")), 6)>>

\* the expressions evaluated twice: a literal, a name, a unary and a binary
\* operation, a parenthesized expression, a table field, a table
\* constructor and a function literal
TwiceExps(p) ==
    <<Lits[p.a],
      N("x"),
      Unary("NOT", 3, N("x")),
      Binary(N("x"), "DOTDOT", 3, Lits[p.b]),
      Grouping(N("x")),
      ExpVar(VarIndex(N("t"), LitStr(<<"x">>))),
      TableConstructor(<<Field(N("x"))>>),
      Function(<<>>, <<RetStmt(<<N("x")>>, 3)>>)>>

\* x = a; local t = {x = b}; local x1, x2 = e, e
TwiceBlock(p) ==
    <<Set("x", Lits[p.a], 1),
      Local("t", TableConstructor(<<NamedField(<<"x">>, Lits[p.b])>>), 2),
      LocalAssign(<<"x1", "x2">>, <<TwiceExps(p)[p.k], TwiceExps(p)[p.k]>>, 3)>>

\* operations that fail on their left operand: a table, a closure, nil or
\* a boolean
\*   local t = {}; function f() end; r = operand op 1
\* with op one of + .. < <= - and, for k = 6, the unary minus
TyOperands == <<N("t"), N("f"), LitNil, LitTrue>>
TyOps == <<"PLUS", "DOTDOT", "LESS", "LESSEQUAL", "MINUS">>
TyErrBlock(p) ==
    <<Local("t", TableConstructor(<<>>), 1),
      FuncDecl(FALSE, "f", <<>>, <<>>, 2),
      Set("r", IF p.k = 6 THEN Unary("MINUS", 3, TyOperands[p.a])
               ELSE Binary(TyOperands[p.a], TyOps[p.k], 3, LitNum(1)), 3)>>

\* local n = 0; cnt = 0
\* while n < 3 do n = n + 1; cnt = cnt + 1; local n = 10 end
\* (k = 1: without the local declaration; k = 2: the body declares m)
WhlBlock(p) ==
    <<Local("n", LitNum(0), 1),
      Set("cnt", LitNum(0), 2),
      WhileStmt(Binary(N("n"), "LESS", 3, LitNum(3)),
                <<Set("n", Binary(N("n"), "PLUS", 3, LitNum(1)), 3),
                  Set("cnt", Binary(N("cnt"), "PLUS", 3, LitNum(1)), 3)>>
                \o (CASE p.k = 0 -> <<Local("n", LitNum(10), 3)>>
                      [] p.k = 1 -> <<>>
                      [] p.k = 2 -> <<Local("m", LitNum(10), 3)>>), 3)>>

\* numeric for loops and their step
\*   k = 0: s = 1; cnt = 0; for i = 1, 6, s do cnt = cnt + 1; s = 2 end; r = cnt
\*   k = 1: local t = {n = 0}; function st() t.n = t.n + 1; return 1 end
\*          for i = 1, 3, st() do end; r = t.n
\*   k = 2: s = 1; cnt = 0; for i = 1, 6, 2 do cnt = cnt + 1 end; r = cnt
NforBlock(p) ==
    LET tn == VarIndex(N("t"), LitStr(<<"n">>))
        inc == Set("cnt", Binary(N("cnt"), "PLUS", 3, LitNum(1)), 3)
    IN CASE p.k = 0 ->
              <<Set("s", LitNum(1), 1), Set("cnt", LitNum(0), 2),
                NumericFor("i", LitNum(1), LitNum(6), N("s"),
                           <<inc, Set("s", LitNum(2), 3)>>, 3),
                Set("r", N("cnt"), 4)>>
         [] p.k = 1 ->
              <<Local("t", TableConstructor(<<NamedField(<<"n">>, LitNum(0))>>), 1),
                FuncDecl(FALSE, "st", <<>>,
                    <<Assign(<<tn>>, <<Binary(ExpVar(tn), "PLUS", 2, LitNum(1))>>, 2),
                      RetStmt(<<LitNum(1)>>, 2)>>, 2),
                NumericFor("i", LitNum(1), LitNum(3), Call0("st"), <<>>, 3),
                Set("r", ExpVar(tn), 4)>>
         [] p.k = 2 ->
              <<Set("s", LitNum(1), 1), Set("cnt", LitNum(0), 2),
                NumericFor("i", LitNum(1), LitNum(6), LitNum(2), <<inc>>, 3),
                Set("r", N("cnt"), 4)>>

\* the order of evaluations and stores of an assignment
\*   k = 0: x1, x2 = a, b; x1, x2 = x2, x1
\*   k = 1: local log = {n = 0}; local t, u = {}, {}
\*          function mark(id, v) log.n = log.n * 10 + id; return v end
\*          mark(3, t)[mark(4, "k")], mark(5, u)[mark(6, "k")] = mark(1, a), mark(2, b)
\*          r, x1, x2 = log.n, t.k, u.k
\*   k = 2: x = 1; local t = {}; x, t[x] = 2, b; r, x1 = t[1], t[2]
\*   k = 3: x, x = a, b; r = x
OrderBlock(p) ==
    LET logn == VarIndex(N("log"), LitStr(<<"n">>))
        mark(id, v) == Call(N("mark"), <<LitNum(id), v>>)
        k == LitStr(<<"k">>)
    IN CASE p.k = 0 ->
              <<Assign(<<VarName("x1"), VarName("x2")>>, <<Lits[p.a], Lits[p.b]>>, 1),
                Assign(<<VarName("x1"), VarName("x2")>>, <<N("x2"), N("x1")>>, 2)>>
         [] p.k = 1 ->
              <<Local("log", TableConstructor(<<NamedField(<<"n">>, LitNum(0))>>), 1),
                LocalAssign(<<"t", "u">>,
                            <<TableConstructor(<<>>), TableConstructor(<<>>)>>, 2),
                FuncDecl(FALSE, "mark", <<"id", "v">>,
                    <<Assign(<<logn>>,
                             <<Binary(Binary(ExpVar(logn), "MUL", 3, LitNum(10)),
                                      "PLUS", 3, N("id"))>>, 3),
                      RetStmt(<<N("v")>>, 3)>>, 3),
                Assign(<<VarIndex(mark(3, N("t")), mark(4, k)),
                         VarIndex(mark(5, N("u")), mark(6, k))>>,
                       <<mark(1, Lits[p.a]), mark(2, Lits[p.b])>>, 4),
                Assign(<<VarName("r"), VarName("x1"), VarName("x2")>>,
                       <<ExpVar(logn), ExpVar(VarIndex(N("t"), k)),
                         ExpVar(VarIndex(N("u"), k))>>, 5)>>
         [] p.k = 2 ->
              <<Set("x", LitNum(1), 1),
                Local("t", TableConstructor(<<>>), 2),
                Assign(<<VarName("x"), VarIndex(N("t"), N("x"))>>,
                       <<LitNum(2), Lits[p.b]>>, 3),
                Assign(<<VarName("r"), VarName("x1")>>,
                       <<ExpVar(VarIndex(N("t"), LitNum(1))),
                         ExpVar(VarIndex(N("t"), LitNum(2)))>>, 4)>>
         [] p.k = 3 ->
              <<Assign(<<VarName("x"), VarName("x")>>, <<Lits[p.a], Lits[p.b]>>, 1),
                Set("r", N("x"), 2)>>

\* a read of t[key] whose key expression stores into t
\*   local t = {x = a}
\*   function key() t.x = b; return "x" end
\*   r = t[key()]          (k = 1: r = t["x"] after a call statement key())
KeyBlock(p) ==
    LET tx == VarIndex(N("t"), LitStr(<<"x">>))
    IN <<Local("t", TableConstructor(<<NamedField(<<"x">>, Lits[p.a])>>), 1),
         FuncDecl(FALSE, "key", <<>>,
             <<Assign(<<tx>>, <<Lits[p.b]>>, 2), RetStmt(<<LitStr(<<"x">>)>>, 2)>>, 2)>>
       \o (IF p.k = 0
           THEN <<Set("u", LitNum(0), 3),
                  Set("r", ExpVar(VarIndex(N("t"), Call0("key"))), 4)>>
           ELSE <<CallStmt(N("key"), <<>>, 3), Set("r", ExpVar(tx), 4)>>)

\* an assignment to a global inside a closure body
\*   k = 0: count = 0; function inc() count = count + 1 end
\*   k = 1: function inc() count = count + 1 end; count = 0
\*   inc(); r = count; print(count)
GincBlock(p) ==
    LET c0 == Set("count", LitNum(0), 1)
        inc == FuncDecl(FALSE, "inc", <<>>,
                   <<Set("count", Binary(N("count"), "PLUS", 2, LitNum(1)), 2)>>, 2)
    IN (IF p.k = 0 THEN <<c0, inc>> ELSE <<inc, c0>>)
       \o <<CallStmt(N("inc"), <<>>, 3),
            Set("r", N("count"), 4),
            CallStmt(N("print"), <<N("count")>>, 5)>>


\* the conditions of an if statement: two falsy ones and a truthy one
CondLits == <<LitFalse, LitNil, LitNum(0)>>
CondVals == <<Bool(FALSE), Nil, Num(0)>>

\* local log = {n = 0, b = 0}
\* function mark(id, v) log.n = log.n * 10 + id; return v end
\* if mark(1, c1) then log.b = log.b * 10 + 1
\* elseif mark(2, c2) then log.b = log.b * 10 + 2
\* elseif mark(3, c3) then log.b = log.b * 10 + 3
\* else log.b = log.b * 10 + 4 end        (k = 1: without the else branch)
\* r, x1 = log.n, log.b
IfsBlock(p) ==
    LET logn == VarIndex(N("log"), LitStr(<<"n">>))
        logb == VarIndex(N("log"), LitStr(<<"b">>))
        mark(id, v) == Call(N("mark"), <<LitNum(id), v>>)
        ran(id) == <<Assign(<<logb>>,
                            <<Binary(Binary(ExpVar(logb), "MUL", 3, LitNum(10)),
                                     "PLUS", 3, LitNum(id))>>, 3)>>
    IN <<Local("log", TableConstructor(<<NamedField(<<"n">>, LitNum(0)),
                                         NamedField(<<"b">>, LitNum(0))>>), 1),
         FuncDecl(FALSE, "mark", <<"id", "v">>,
             <<Assign(<<logn>>,
                      <<Binary(Binary(ExpVar(logn), "MUL", 2, LitNum(10)),
                               "PLUS", 2, N("id"))>>, 2),
               RetStmt(<<N("v")>>, 2)>>, 2),
         IfStmt(mark(1, CondLits[p.a]), ran(1),
                <<<<mark(2, CondLits[p.b]), ran(2)>>,
                  <<mark(3, CondLits[p.c]), ran(3)>>>>,
                p.k = 0, IF p.k = 0 THEN ran(4) ELSE <<>>, 3),
         Assign(<<VarName("r"), VarName("x1")>>, <<ExpVar(logn), ExpVar(logb)>>, 4)>>

\* local log = {n = 0}
\* function mark(id, v) log.n = log.n * 10 + id; return v end
\* r = mark(1, a) and mark(2, b)          (k = 1: or)
\* x1 = log.n
LogicBlock(p) ==
    LET logn == VarIndex(N("log"), LitStr(<<"n">>))
        mark(id, v) == Call(N("mark"), <<LitNum(id), v>>)
    IN <<Local("log", TableConstructor(<<NamedField(<<"n">>, LitNum(0))>>), 1),
         FuncDecl(FALSE, "mark", <<"id", "v">>,
             <<Assign(<<logn>>,
                      <<Binary(Binary(ExpVar(logn), "MUL", 2, LitNum(10)),
                               "PLUS", 2, N("id"))>>, 2),
               RetStmt(<<N("v")>>, 2)>>, 2),
         Set("r", Binary(mark(1, CondLits[p.a]), IF p.k = 0 THEN "AND" ELSE "OR", 3,
                         mark(2, CondLits[p.b])), 3),
         Set("x1", ExpVar(logn), 4)>>

\* functions that call themselves unconditionally, declared in a block that
\* runs at depth RecDepth[k + 1]: each call appends the frames captured at
\* the declaration and the frame of the call
\*   k = 0: function f() f() end; f()
\*   k = 1: local function f(n) return f(n + 1) end; r = f(1)
\*   k = 2: the program of k = 0, deeper
\* followed at the top level by done = true
RecDepth == <<60, 30, 300>>

RecBlock(p) ==
    DeepNest(RecDepth[p.k + 1],
        IF p.k = 1
        THEN <<FuncDecl(TRUE, "f", <<"n">>,
                 <<RetStmt(<<Call(N("f"), <<Binary(N("n"), "PLUS", 1, LitNum(1))>>)>>, 1)>>,
                 1),
               Set("r", Call(N("f"), <<LitNum(1)>>), 2)>>
        ELSE <<FuncDecl(FALSE, "f", <<>>, <<CallStmt(N("f"), <<>>, 1)>>, 1),
               CallStmt(N("f"), <<>>, 2)>>)
    \o <<Set("done", LitTrue, 3)>>

\* return and break statements that reach the top level
\*   k = 0: r = a; return r; r = 0
\*   k = 1: r = a; if true then return end; r = 0
\*   k = 2: r = a; break; r = 0
\*   k = 3: r = a; do break end; r = 0
\*   k = 4: function f() break end; r = a; f(); r = 0
\* the return or break is on line 2
TopBlock(p) ==
    CASE p.k = 0 -> <<Set("r", Lits[p.a], 1), RetStmt(<<N("r")>>, 2), Set("r", LitNum(0), 3)>>
      [] p.k = 1 -> <<Set("r", Lits[p.a], 1),
                      IfStmt(LitTrue, <<RetStmt(<<>>, 2)>>, <<>>, FALSE, <<>>, 2),
                      Set("r", LitNum(0), 3)>>
      [] p.k = 2 -> <<Set("r", Lits[p.a], 1), BreakStmt(2), Set("r", LitNum(0), 3)>>
      [] p.k = 3 -> <<Set("r", Lits[p.a], 1), DoBlockEnd(<<BreakStmt(2)>>, 2),
                      Set("r", LitNum(0), 3)>>
      [] p.k = 4 -> <<FuncDecl(FALSE, "f", <<>>, <<BreakStmt(2)>>, 2),
                      Set("r", Lits[p.a], 3), CallStmt(N("f"), <<>>, 4),
                      Set("r", LitNum(0), 5)>>
Desc(fam, a, b, c, k, m, n) ==
    [fam |-> fam, a |-> a, b |-> b, c |-> c, k |-> k, m |-> m, n |-> n]

Programs ==
    {Desc("counter", 1, 1, 1, k, 0, 0) : k \in 0..MaxK}
    \cup {Desc("scope", a, 1, 1, k, 0, 0) : a \in ValIdx, k \in 0..2}
    \cup {Desc("argenv", a, b, 1, k, 0, 0) : a \in ValIdx, b \in ValIdx, k \in 0..1}
    \cup {Desc("brk", 1, 1, 1, k, 0, 0) : k \in 0..2}
    \cup {Desc("leak", a, 1, 1, k, 0, 0) : a \in ValIdx, k \in LeakVariants}
    \cup {Desc("callerr", a, 1, 1, k, 0, 0) : a \in ValIdx, k \in CallErrVariants}
    \cup {Desc("retfwd", a, b, c, k, 0, 0) : a \in ValIdx, b \in ValIdx, c \in ValIdx,
                                             k \in 0..1}
    \cup {Desc(fam, a, (a % 3) + 1, ((a + 1) % 3) + 1, k, m, n) :
             fam \in {"multi", "multilit"}, a \in ValIdx, k \in 1..(MaxK + 1),
             m \in 0..2, n \in 0..3}
    \cup {Desc("group", a, b, 1, k, 0, 0) : a \in ValIdx, b \in ValIdx, k \in 0..1}
    \cup {Desc("stores", a, b, 1, k, 0, 0) : a \in ValIdx, b \in ValIdx,
                                             k \in StoresVariants}
    \cup {Desc("eq", a, b, 1, 0, 0, 0) : a \in 1..Len(EqOperands),
                                         b \in 1..Len(EqOperands)}
    \cup {Desc("print", a, (a % 3) + 1, ((a + 1) % 3) + 1, k, 0, n) :
             a \in ValIdx, k \in {0, 2, 3, 4}, n \in 0..3}
    \cup {Desc("print", 1, 2, 3, 1, 0, 0)}
    \cup {Desc("tgt", a, b, (b % 3) + 1, k, 0, 0) : a \in ValIdx, b \in ValIdx,
                                                    k \in 0..3}
    \cup {Desc("iter", 1, 1, 1, k, 0, n) : k \in 0..2, n \in 1..3}
    \cup {Desc("deep", 1, 1, 1, 0, 0, n) : n \in DeepTargets}
    \cup {Desc("asg", a, b, (b % 3) + 1, k, 0, 0) : a \in ValIdx, b \in ValIdx,
                                                    k \in 0..4}
    \cup {Desc("tbl", a, b, c, 0, 0, 0) : a \in TblStores, b \in TblStores,
                                          c \in TblStores}
    \cup {Desc("ref", a, b, 1, k, 0, 0) : a \in ValIdx, b \in ValIdx, k \in 0..4}
    \cup {Desc("twice", a, b, 1, k, 0, 0) : a \in ValIdx, b \in ValIdx, k \in 1..8}
    \cup {Desc("tyerr", a, 1, 1, k, 0, 0) : a \in 1..Len(TyOperands), k \in 1..6}
    \cup {Desc("whl", 1, 1, 1, k, 0, 0) : k \in 0..2}
    \cup {Desc("nfor", 1, 1, 1, k, 0, 0) : k \in 0..2}
    \cup {Desc("order", a, b, 1, k, 0, 0) : a \in ValIdx, b \in ValIdx, k \in 0..3}
    \cup {Desc("key", a, b, 1, k, 0, 0) : a \in ValIdx, b \in ValIdx, k \in 0..1}
    \cup {Desc("ginc", 1, 1, 1, k, 0, 0) : k \in 0..1}
    \cup {Desc("ifs", a, b, c, k, 0, 0) : a \in 1..3, b \in 1..3, c \in 1..3, k \in 0..1}
    \cup {Desc("logic", a, b, 1, k, 0, 0) : a \in 1..3, b \in 1..3, k \in 0..1}
    \cup {Desc("rec", 1, 1, 1, k, 0, 0) : k \in 0..2}
    \cup {Desc("top", a, 1, 1, k, 0, 0) : a \in ValIdx, k \in 0..4}

Block(p) ==
    CASE p.fam = "counter" -> CounterBlock(p)
      [] p.fam = "scope" -> ScopeBlock(p)
      [] p.fam = "argenv" -> ArgEnvBlock(p)
      [] p.fam = "brk" -> BrkBlock(p)
      [] p.fam = "leak" -> LeakBlock(p)
      [] p.fam = "callerr" -> CallErrBlock(p)
      [] p.fam = "retfwd" -> RetFwdBlock(p)
      [] p.fam \in {"multi", "multilit"} -> MultiBlock(p)
      [] p.fam = "group" -> GroupBlock(p)
      [] p.fam = "stores" -> StoresBlock(p)
      [] p.fam = "eq" -> EqBlock(p)
      [] p.fam = "print" -> PrintBlock(p)
      [] p.fam = "tgt" -> TgtBlock(p)
      [] p.fam = "iter" -> IterBlock(p)
      [] p.fam = "deep" -> DeepBlock(p)
      [] p.fam = "asg" -> AsgBlock(p)
      [] p.fam = "tbl" -> TblBlock(p)
      [] p.fam = "ref" -> RefBlock(p)
      [] p.fam = "twice" -> TwiceBlock(p)
      [] p.fam = "tyerr" -> TyErrBlock(p)
      [] p.fam = "whl" -> WhlBlock(p)
      [] p.fam = "nfor" -> NforBlock(p)
      [] p.fam = "order" -> OrderBlock(p)
      [] p.fam = "key" -> KeyBlock(p)
      [] p.fam = "ginc" -> GincBlock(p)
      [] p.fam = "ifs" -> IfsBlock(p)
      [] p.fam = "logic" -> LogicBlock(p)
      [] p.fam = "rec" -> RecBlock(p)
      [] p.fam = "top" -> TopBlock(p)


\* ------------------------------------------------------------------------
\* The machine: the driver (main.rs 14-47, rua.rs 41-45) and one action for
\* every function of the interpreter that calls eval or exec
\* ------------------------------------------------------------------------
VARIABLES prog,        \* descriptor of the block handed to interpret
          stack,       \* the activations of the interpreter's functions
          ret,         \* the Result the last callee returned
          env_stack, addr_space, cur_addr,   \* the Interpreter
          out,         \* standard output
          call_exit,   \* depths of env_stack at entry and exit of the last closure call
          status,      \* "running", "exited", "aborted"
          stderr,      \* diagnostics written by report
          lexer        \* the Lexer and the position of its functions

vars == <<prog, stack, ret, env_stack, addr_space, cur_addr, out, call_exit, status,
          stderr, lexer>>

\* Interpreter::new (interpreter.rs 133-139) and the call of exec_block on
\* the block (rua.rs 41-45)
Init ==
    /\ prog \in Programs
    /\ stack = <<ExecBlockFrame(Block(prog))>>
    /\ ret = NoRet
    /\ env_stack = <<global_env>>
    /\ addr_space = [a \in {} |-> HeapTable(TableNew)]
    /\ cur_addr = 0
    /\ out = <<>>
    /\ call_exit = [set |-> FALSE]
    /\ status = "running"
    /\ stderr = <<>>
    /\ lexer = [Lexer(<<>>) EXCEPT !.fn = "none"]

State ==
    [stack |-> stack, ret |-> ret, env_stack |-> env_stack, addr_space |-> addr_space,
     cur_addr |-> cur_addr, out |-> out, call_exit |-> call_exit]

\* the running activation is one of function fn
Running(fn) ==
    /\ status = "running"
    /\ stack # <<>>
    /\ stack[Len(stack)].fn = fn

\* the machine moves to S
Becomes(S) ==
    /\ stack' = S.stack
    /\ ret' = S.ret
    /\ env_stack' = S.env_stack
    /\ addr_space' = S.addr_space
    /\ cur_addr' = S.cur_addr
    /\ out' = S.out
    /\ call_exit' = S.call_exit
    /\ UNCHANGED <<prog, status, stderr, lexer>>

ExecBlock == Running("exec_block") /\ Becomes(exec_block(State))
Exec == Running("exec") /\ Becomes(exec(State))
ExecAssign == Running("exec_assign") /\ Becomes(exec_assign(State))
AssignLocalNamelist ==
    Running("assign_local_namelist") /\ Becomes(assign_local_namelist(State))
ExecGenericFor ==
    /\ Running("exec_generic_for")
    /\ \E seed \in 0..MaxSeed : Becomes(exec_generic_for(State, seed))
ExecNumericFor == Running("exec_numeric_for") /\ Becomes(exec_numeric_for(State))
ExecIf == Running("exec_if") /\ Becomes(exec_if(State))
ExecWhile == Running("exec_while") /\ Becomes(exec_while(State))
ExecReturn == Running("exec_return") /\ Becomes(exec_return(State))
Eval == Running("eval") /\ Becomes(eval(State))
EvalUnary == Running("eval_unary") /\ Becomes(eval_unary(State))
EvalBinary == Running("eval_binary") /\ Becomes(eval_binary(State))
EvalVar == Running("eval_var") /\ Becomes(eval_var(State))
EvalFuncCall == Running("eval_func_call") /\ Becomes(eval_func_call(State))
EvalTable == Running("eval_table") /\ Becomes(eval_table(State))
CallPrint == Running("call_print") /\ Becomes(call_print(State))

\* interpret returned Ok(()): main falls through
Finish ==
    /\ status = "running"
    /\ stack = <<>>
    /\ ret.sig = "Ok"
    /\ status' = "exited"
    /\ UNCHANGED <<prog, stack, ret, env_stack, addr_space, cur_addr, out, call_exit,
                   stderr, lexer>>

report_return(e) ==
    CASE e.sig = "RuntimeError" ->
           <<[line |-> e.line, message |-> e.message]>>
      [] e.sig = "RetResult" ->
           <<[line |-> 0, message |-> <<"<return> not inside a function">>]>>
      [] e.sig = "Break" -> <<>>

\* RuntimeException::report (interpreter.rs 1070-1083)
report(e) ==
    CASE e.sig = "RuntimeError" ->
           <<[line |-> e.line, message |-> e.message]>>
      [] e.sig = "RetResult" -> <<>>
      [] e.sig = "Break" ->
           <<[line |-> e.line,
              message |-> <<"<break> at line ", NumToString(e.line), " not inside a loop">>]>>

\* interpret returned Err(e): main reports it and falls through
Report ==
    /\ status = "running"
    /\ stack = <<>>
    /\ ret.sig \in {"RuntimeError", "RetResult", "Break"}
    /\ stderr' = stderr \o report(ret)
    /\ status' = "exited"
    /\ UNCHANGED <<prog, stack, ret, env_stack, addr_space, cur_addr, out, call_exit,
                   lexer>>

\* a panic ends the process
Abort ==
    /\ status = "running"
    /\ stack = <<>>
    /\ ret.sig = "Panic"
    /\ status' = "aborted"
    /\ UNCHANGED <<prog, stack, ret, env_stack, addr_space, cur_addr, out, call_exit,
                   stderr, lexer>>

\* the exit status of the process once it has ended: main returns () after
\* either arm of the match on interpret's result, a panic ends it with 101
ExitStatus == IF status = "aborted" THEN 101 ELSE 0

Next ==
    \/ ExecBlock \/ Exec \/ ExecAssign \/ AssignLocalNamelist \/ ExecGenericFor
    \/ ExecNumericFor \/ ExecIf \/ ExecWhile \/ ExecReturn
    \/ Eval \/ EvalUnary \/ EvalBinary \/ EvalVar \/ EvalFuncCall \/ EvalTable
    \/ CallPrint
    \/ Finish \/ Report \/ Abort

Spec == Init /\ [][Next]_vars


\* the interpreter is one sequential thread: a step that can be taken is taken
FairSpec == Init /\ [][Next]_vars /\ WF_vars(Next)

\* ------------------------------------------------------------------------
\* The driver up to the lexer (main.rs 24-42, rua.rs 30-34): the source is
\* lexed, a LexError is reported, a panic ends the process
\* ------------------------------------------------------------------------
MaxSrc == 5

\* the sources of at most n bytes over the bytes of `alphabet`
SourcesOver(alphabet, n) == UNION {[1..m -> alphabet] : m \in 0..n}

\* other sources: the remaining arms of lex
MoreSources ==
    {<<"'", "a", "\\", "'", "b", "'">>,
     <<"'", "\\", "t", "\\", "\\", "'", " ", "x">>,
     <<"\"", "a", "\\", "n", "\"">>,
     <<"\"", "a", "\\", "n", "\"", "\n">>,
     <<"x", "=", "\"", "\\", "n", "\"", ";", "y", "=", "1">>,
     <<"[", "[", "a", "]", "b", "]", "]">>,
     <<"[", "[", "\n", "a", "\n", "]", "]", " ", "x">>,
     <<"-", "-", "[", "[", "a", "]", "\n", "]", "]", "b">>,
     <<"-", "-", "[", "[", "a">>,
     <<"-", "-", " ", "a", "\n", "1", "2", ".", "5">>,
     <<"a", "1", "=", "1", ".", ".", "2", "-", "3">>,
     <<"i", "f", " ", "a", "~", "=", "b", "\t", "t", "h", "e", "n">>,
     <<"a", "~", "b">>,
     <<"t", "[", "1", "]", "<", "=", "{", "}", "/", "/", "(", "#", "x", ")">>,
     <<"a", "$">>}

Sources ==
    SourcesOver({"\"", "\\", "n", "a", "\n"}, MaxSrc)
    \cup SourcesOver({"[", "]", "a", "\n"}, MaxSrc)
    \cup MoreSources

LexInit ==
    /\ lexer \in {Lexer(source) : source \in Sources}
    /\ status = "lexing"
    /\ prog = Desc("none", 1, 1, 1, 0, 0, 0)
    /\ stack = <<>>
    /\ ret = NoRet
    /\ env_stack = <<>>
    /\ addr_space = [a \in {} |-> HeapTable(TableNew)]
    /\ cur_addr = 0
    /\ out = <<>>
    /\ call_exit = [set |-> FALSE]
    /\ stderr = <<>>

\* the lexer moves to L
LexBecomes(L) ==
    /\ lexer' = L
    /\ UNCHANGED <<prog, stack, ret, env_stack, addr_space, cur_addr, out, call_exit,
                   status, stderr>>

Lex == status = "lexing" /\ lexer.fn = "lex" /\ LexBecomes(lex(lexer))
LexLineString ==
    status = "lexing" /\ lexer.fn = "lex_line_string" /\ LexBecomes(lex_line_string(lexer))
LexLongString ==
    status = "lexing" /\ lexer.fn = "lex_long_string" /\ LexBecomes(lex_long_string(lexer))

\* program.lex() returned Ok(tokens): the tokens go to the parser
LexOk ==
    /\ status = "lexing" /\ lexer.fn = "main" /\ lexer.res.sig = "Ok"
    /\ status' = "lexed"
    /\ UNCHANGED <<prog, stack, ret, env_stack, addr_space, cur_addr, out, call_exit,
                   stderr, lexer>>

\* program.lex() returned Err(e): LexError::report, and main falls through
LexReport ==
    /\ status = "lexing" /\ lexer.fn = "main" /\ lexer.res.sig = "LexError"
    /\ stderr' = stderr \o <<[line |-> lexer.res.line, message |-> lexer.res.message]>>
    /\ status' = "exited"
    /\ UNCHANGED <<prog, stack, ret, env_stack, addr_space, cur_addr, out, call_exit,
                   lexer>>

\* a panic in the lexer ends the process
LexAbort ==
    /\ status = "lexing" /\ lexer.fn = "main" /\ lexer.res.sig = "Panic"
    /\ status' = "aborted"
    /\ UNCHANGED <<prog, stack, ret, env_stack, addr_space, cur_addr, out, call_exit,
                   stderr, lexer>>

LexNext == Lex \/ LexLineString \/ LexLongString \/ LexOk \/ LexReport \/ LexAbort

\* the lexer is one sequential thread: a step that can be taken is taken
LexSpec == LexInit /\ [][LexNext]_vars /\ WF_vars(LexNext)
\* ------------------------------------------------------------------------
\* Properties
\* ------------------------------------------------------------------------
\* lookup(name) as eval_var performs it on the current stack
Lookup(name) ==
    IF get(env_stack, name).some THEN get(env_stack, name).val ELSE Nil

\* control is back in the top-level block: its statement i has just
\* finished with Ok
Done(i) ==
    /\ Len(stack) = 1
    /\ stack[1].pc = "stmt"
    /\ stack[1].i = i
    /\ ret.sig = "Ok"

\* C1: mutations of a captured local persist across calls of the same
\* closure: with c = counter(), the j-th call of c returns j, so after the
\* j-th statement `r = c()` r is j, and the three calls of
\* `x1, x2, x3 = c(), c(), c()` that follow k such statements return
\* k+1, k+2, k+3.
C1_CounterPersists ==
    prog.fam = "counter" =>
        /\ \A j \in 1..prog.k : Done(2 + j) => Lookup("r") = Num(j)
        /\ Done(3 + prog.k) =>
              /\ Lookup("x1") = Num(prog.k + 1)
              /\ Lookup("x2") = Num(prog.k + 2)
              /\ Lookup("x3") = Num(prog.k + 3)

\* C2: lexical scoping: the free name x of closure c, bound in no frame of
\* the environment c was defined in and in no frame of the call, evaluates
\* to Nil although the caller binds x in a local frame; r = c() leaves r Nil.
C2_FreeNameIsNil ==
    (prog.fam = "scope" /\ Done(Len(Block(prog)))) => Lookup("r") = Nil

\* C3: the arguments of a closure call are evaluated in the caller's
\* environment, before the captured frames and the parameter frame are on
\* the stack: while the call binds its arguments the stack is as deep as
\* it was when the call was made, and r = f(x) passes the caller's current
\* value b of x although the snapshot captured by f binds x to the older
\* value a.
C3_ArgsInCallerEnv ==
    /\ (/\ Len(stack) >= 2
        /\ stack[Len(stack)].fn = "assign_local_namelist"
        /\ stack[Len(stack) - 1].fn = "eval_func_call"
        /\ stack[Len(stack) - 1].pc = "params")
          => Len(env_stack) = stack[Len(stack) - 1].rec_n
    /\ (prog.fam = "argenv" /\ Done(IF prog.k = 0 THEN 4 ELSE 3)) =>
          Lookup("r") = Vals[prog.b]

\* C4: a Break raised in a closure body outside any loop of that body never
\* leaves the call as Break: no closure call returns Break, the statement
\* that contains the call (the enclosing while loop, or the call itself)
\* does not finish, and the execution ends with a RuntimeError.
C4_BreakBecomesError ==
    /\ call_exit.set => call_exit.sig # "Break"
    /\ prog.fam = "brk" =>
          /\ ~Done(3)
          /\ stack = <<>> => ret.sig = "RuntimeError"

\* the statements that open a scope frame
ScopeStmts == {"DoBlockEnd", "IfStmt", "WhileStmt", "NumericFor", "GenericFor"}

\* C5: scope frames are balanced: when a do-block, if, while, numeric for
\* or generic for of any block has finished without an Error the stack is
\* as deep as it was before the statement, only the globals frame is on the
\* stack between two top-level statements, and no local of a finished loop
\* or block is visible (r = x reads Nil).
C5_FramesBalanced ==
    /\ (/\ status = "running" /\ stack # <<>>
        /\ stack[Len(stack)].fn = "exec_block" /\ stack[Len(stack)].pc = "stmt"
        /\ ret.sig = "Ok"
        /\ stack[Len(stack)].block[stack[Len(stack)].i].s \in ScopeStmts)
          => Len(env_stack) = stack[Len(stack)].depth
    /\ (\E i \in 1..Len(Block(prog)) : Done(i)) => Len(env_stack) = 1
    /\ (prog.fam = "leak" /\ Done(2)) => Lookup("r") = Nil

\* C6: a closure call restores the environment stack on every exit path
\* (normal completion, Return, Error, also an Error raised while binding
\* the arguments or pushing the parameter frame): the depth the call leaves
\* with is the depth recorded when it was entered.
C6_CallRestoresStack ==
    call_exit.set => call_exit.depth = call_exit.rec_n

\* C7: `return e1,...,en` carries the collapsed values of e1..e(n-1)
\* followed by all values of a call en: with f returning b, c,
\* `return f()` forwards b, c and `return a, f()` forwards a, b, c.
C7_ReturnForwardsAll ==
    (prog.fam = "retfwd" /\ Done(3)) =>
        /\ Lookup("x1") = (IF prog.k = 1 THEN Vals[prog.a] ELSE Vals[prog.b])
        /\ Lookup("x2") = (IF prog.k = 1 THEN Vals[prog.b] ELSE Vals[prog.c])
        /\ Lookup("x3") = (IF prog.k = 1 THEN Vals[prog.c] ELSE Nil)

\* the values `local x1,...,xk = h(), ..., last` has to bind, by the rule
\* of the specification: one value (the first, c) for each of the m earlier
\* calls of h, then every value of the last source
MultiExpected(p) ==
    [i \in 1..p.m |-> Vals[p.c]]
      \o (IF p.fam = "multi"
          THEN SubSeq(<<Vals[p.a], Vals[p.b], Vals[p.c]>>, 1, p.n)
          ELSE <<Vals[p.a]>>)

\* C8: multi-value binding: in `local x1,...,xk = e1,...,em` only the last
\* source is expanded when it is a call, every earlier source contributes
\* exactly one value, targets beyond the values are Nil and surplus values
\* are dropped.
C8_MultiValueBinding ==
    (prog.fam \in {"multi", "multilit"} /\ Done(3)) =>
        \A i \in 1..prog.k :
            Lookup(TargetNames[i]) =
                IF i <= Len(MultiExpected(prog)) THEN MultiExpected(prog)[i] ELSE Nil

\* `local x1, x2, x3, x4 = f()` with f returning a, b, c has run
C8_Witness ==
    /\ prog.fam = "multi" /\ prog.m = 0 /\ prog.n = 3 /\ prog.k = 4 /\ Done(3)
    /\ Lookup("x2") = Vals[prog.b] /\ Lookup("x3") = Vals[prog.c]
    /\ Lookup("x4") = Nil

\* C9: a parenthesized expression evaluates to a single collapsed value:
\* with f returning a, b, `local x1, x2 = (f())` binds x1 to a and x2 to Nil.
C9_GroupingCollapses ==
    (prog.fam = "group" /\ Done(2)) =>
        /\ Lookup("x1") = Vals[prog.a]
        /\ Lookup("x2") = Nil

NoListInFrames(frames) ==
    \A i \in 1..Len(frames) : \A x \in DOMAIN frames[i] : frames[i][x].t # "ValueList"

\* C10: no environment frame binding (of the stack and of every captured
\* snapshot), no table key, no table value and no element of a Return
\* value sequence is a ValueList.
C10_NoStoredValueList ==
    /\ NoListInFrames(env_stack)
    /\ \A a \in DOMAIN addr_space :
          IF addr_space[a].k = "Table"
          THEN \A j \in 1..Len(addr_space[a].table) :
                  /\ addr_space[a].table[j].key.t # "ValueList"
                  /\ addr_space[a].table[j].val.t # "ValueList"
          ELSE NoListInFrames(addr_space[a].closure)
    /\ ret.sig = "RetResult" =>
          \A i \in 1..Len(ret.values) : ret.values[i].t # "ValueList"

\* results of calls that return two values have been stored in a table, in
\* variables and in parameters, and returned to the driver
C10_Witness ==
    /\ prog.fam = "stores" /\ prog.k = 3
    /\ stack = <<>> /\ ret.sig = "RetResult" /\ Len(ret.values) = 1
    /\ \E a \in DOMAIN addr_space :
          /\ addr_space[a].k = "Function"
          /\ Len(addr_space[a].closure) = 3
          /\ "p" \in DOMAIN addr_space[a].closure[3]

\* C11: equality: `e1 == e2` is true for Nil with Nil, for two Booleans of
\* the same value, for numbers and strings of equal value and for the same
\* handle, and false for operands of different types, of different values
\* and for two different tables; `e1 ~= e2` is its negation.  The operands
\* of the programs are pairwise different, so r is true exactly when both
\* operands are the same one.
C11_EqualityByValue ==
    prog.fam = "eq" =>
        /\ Done(2) => Lookup("r") = Bool(prog.a = prog.b)
        /\ Done(3) => Lookup("s") = Bool(prog.a # prog.b)

\* the display forms of the values, one tab between consecutive values
RECURSIVE TabSeparated(_)
TabSeparated(values) ==
    IF values = <<>> THEN <<>>
    ELSE IF Len(values) = 1 THEN Display(values[1])
    ELSE Display(Head(values)) \o <<"\t">> \o TabSeparated(Tail(values))

\* C12: a call of print with n values writes the n display forms separated
\* by n-1 tabs, none after the last, followed by one newline, and returns
\* Nil; print(1 + 2 * 3) writes 7 and a newline.
C12_PrintTabSeparated ==
    (prog.fam = "print" /\ prog.k \in {0, 1} /\ Done(3)) =>
        /\ Lookup("r") = Nil
        /\ out = (IF prog.k = 1 THEN <<"7">>
                  ELSE TabSeparated(SubSeq(<<Vals[prog.a], Vals[prog.b], Vals[prog.c]>>,
                                           1, prog.n)))
                 \o <<"\n">>

\* the characters written to standard output other than the tabs and
\* newlines print puts between and after the values
Printed == SelectSeq(out, LAMBDA ch : ch \notin {"\t", "\n"})

\* the concatenated display forms of the values
RECURSIVE Displays(_)
Displays(values) ==
    IF values = <<>> THEN <<>> ELSE Display(Head(values)) \o Displays(Tail(values))

\* C13: print expands its last argument: with f returning the first n of
\* a, b, c, print(f()) prints all n values and print(c, f()) prints c and
\* all n values, while print(f(), c) prints the first value of f (nil when f
\* returns none) and c.
C13_PrintExpandsLast ==
    (prog.fam = "print" /\ prog.k \in {2, 3, 4} /\ Done(3)) =>
        Printed =
          Displays(CASE prog.k = 2 ->
                          SubSeq(<<Vals[prog.a], Vals[prog.b], Vals[prog.c]>>, 1, prog.n)
                     [] prog.k = 3 ->
                          <<IF prog.n = 0 THEN Nil ELSE Vals[prog.a], Vals[prog.c]>>
                     [] prog.k = 4 ->
                          <<Vals[prog.c]>>
                            \o SubSeq(<<Vals[prog.a], Vals[prog.b], Vals[prog.c]>>,
                                      1, prog.n))

\* C14: in a multi-assignment every target beyond the available values
\* receives Nil whatever its kind: with t.y = a before, `x1, t.y = b` and
\* `x1, t.y = b, nil` leave x1 = b and delete t.y, `t.y, x1 = b` leaves
\* t.y = b and x1 Nil, `x1, t.y, t.z = b, c` leaves x1 = b and t.y = c; the
\* statement completes and the program ends without failure.
C14_MissingTargetsGetNil ==
    prog.fam = "tgt" =>
        /\ status # "aborted"
        /\ stack = <<>> => ret.sig = "Ok"
        /\ Done(4) =>
              /\ Lookup("x1") = (IF prog.k = 1 THEN Nil ELSE Vals[prog.b])
              /\ Lookup("r") = (CASE prog.k \in {0, 2} -> Nil
                                  [] prog.k = 1 -> Vals[prog.b]
                                  [] prog.k = 3 -> Vals[prog.c])

\* C15: a generic for visits every entry present at loop start exactly
\* once, in the order in which the keys were first assigned: over a table
\* whose n entries were inserted with the values 1, ..., n the body runs n
\* times (also when it deletes entries) and sees the values in the order
\* 1, ..., n, so that every run leaves s = 1, 12 or 123.
C15_InsertionOrder ==
    (prog.fam = "iter" /\ Done(4)) =>
        /\ Lookup("cnt") = Num(prog.n)
        /\ Lookup("s") = Num(CASE prog.n = 1 -> 1 [] prog.n = 2 -> 12 [] prog.n = 3 -> 123)

\* the error push_env fails with
StackOverflow(r) ==
    r.sig = "RuntimeError" /\ r.message = <<"exceeds the maximum stack sizes">>

\* C16: a push on the environment stack fails with "exceeds the maximum
\* stack sizes" exactly when the resulting depth would exceed 1000: a step
\* that raises the error has tried to make the stack deeper than 1000 (a
\* push that brings the depth to exactly 1000 succeeds), and a step that
\* makes the stack deeper than 1000 raises the error.
C16_PushLimit ==
    [][/\ (StackOverflow(ret') /\ ~StackOverflow(ret)) => Len(env_stack') > StackLimit
       /\ (Len(env_stack') > StackLimit /\ Len(env_stack') > Len(env_stack))
             => StackOverflow(ret')]_vars

\* C17: in every reachable state the environment stack is at most 1000
\* frames deep: block entry, loop iteration entry and call entry, the
\* frames of the captured environment included, are subject to the limit.
C17_DepthBounded ==
    Len(env_stack) <= StackLimit

\* the frame an assignment to the name has to write: the innermost frame
\* that binds it, the globals frame when no frame does
AssignedFrame(frames, name) ==
    IF \E i \in 1..Len(frames) : name \in DOMAIN frames[i]
    THEN CHOOSE i \in 1..Len(frames) :
            /\ name \in DOMAIN frames[i]
            /\ \A j \in (i + 1)..Len(frames) : name \notin DOMAIN frames[j]
    ELSE 1

\* exec_assign is about to store the value of e for the statement `x = e`
AssignsName ==
    /\ stack # <<>>
    /\ stack[Len(stack)].fn = "exec_assign"
    /\ stack[Len(stack)].pc = "value"
    /\ ret.sig = "Ok"
    /\ Len(stack[Len(stack)].left) = 1
    /\ Len(stack[Len(stack)].right) = 1
    /\ stack[Len(stack)].left[1].v = "Name"

\* C18: the step that completes an assignment `x = e` to a name leaves
\* lookup(x) equal to the collapsed value of e and writes exactly one
\* frame, the innermost frame that already binds x or else the globals
\* frame: every other frame, every other binding of that frame and the
\* address space are unchanged.
C18_NameAssignment ==
    [][AssignsName =>
         /\ Len(env_stack') = Len(env_stack)
         /\ \A i \in 1..Len(env_stack) :
               IF i = AssignedFrame(env_stack, stack[Len(stack)].left[1].name)
               THEN /\ DOMAIN env_stack'[i]
                         = DOMAIN env_stack[i] \cup {stack[Len(stack)].left[1].name}
                    /\ \A y \in DOMAIN env_stack[i] :
                          env_stack'[i][y] =
                              IF y = stack[Len(stack)].left[1].name
                              THEN compress(ret.val) ELSE env_stack[i][y]
               ELSE env_stack'[i] = env_stack[i]
         /\ get(env_stack', stack[Len(stack)].left[1].name)
               = [some |-> TRUE, val |-> compress(ret.val)]
         /\ addr_space' = addr_space]_vars

\* `x = b` has run two blocks inside the block that declares x and with a
\* global x outside: the inner reads see b, the global is still a
C18_Witness ==
    /\ prog.fam = "asg" /\ prog.k = 2 /\ prog.a # prog.b /\ Done(3)
    /\ Lookup("r") = Vals[prog.b]
    /\ Lookup("s") = Vals[prog.a]

\* the table the first j stores of the program have to leave, as a map
\* from the two keys to the value stored last (Nil: no entry)
RECURSIVE TblRef(_, _)
TblRef(ops, j) ==
    IF j = 0 THEN [i \in 1..2 |-> Nil]
    ELSE [TblRef(ops, j - 1) EXCEPT ![OpKey(ops[j])] =
             IF OpVal(ops[j]) = 0 THEN Nil ELSE Vals[OpVal(ops[j])]]

\* C19: after `t[k] = v` a read of t[k] yields v, Nil when v is nil, a key
\* never stored or deleted reads Nil, and #t is the number of keys
\* currently stored, after every sequence of three stores and deletions on
\* two keys; no table of the address space holds an entry for a deleted key
\* (an entry with value Nil) or two entries for one key.
C19_TableStoreRead ==
    /\ (prog.fam = "tbl" /\ Done(7)) =>
          \A j \in 1..3 :
              /\ Lookup(TargetNames[j]) = TblRef(<<prog.a, prog.b, prog.c>>, j)[
                                              OpKey(<<prog.a, prog.b, prog.c>>[j])]
              /\ Lookup(TargetNames[j + 3]) = TblRef(<<prog.a, prog.b, prog.c>>, j)[
                                                  3 - OpKey(<<prog.a, prog.b, prog.c>>[j])]
              /\ Lookup(<<"n1", "n2", "n3">>[j]) =
                    Num(Cardinality({i \in 1..2 :
                                       TblRef(<<prog.a, prog.b, prog.c>>, j)[i] # Nil}))
    /\ \A a \in DOMAIN addr_space :
          addr_space[a].k = "Table" =>
              \A i, j \in 1..Len(addr_space[a].table) :
                  /\ addr_space[a].table[i].val # Nil
                  /\ addr_space[a].table[i].key = addr_space[a].table[j].key => i = j

\* t[1] = 1; t.x = 2; t[1] = nil has run: t[1] reads Nil, t.x reads 2 and
\* #t went 1, 2, 1
C19_Witness ==
    /\ prog.fam = "tbl" /\ prog.a = 2 /\ prog.b = 5 /\ prog.c = 0 /\ Done(7)
    /\ Lookup("x3") = Nil /\ Lookup("x6") = Num(2)
    /\ Lookup("n1") = Num(1) /\ Lookup("n2") = Num(2) /\ Lookup("n3") = Num(1)

\* C20: tables have reference semantics: after `b = a` a store through
\* one name, also one made inside a called closure that received or
\* captured the handle, is read through the other name and `a == b` is
\* true; two separately constructed tables with the same contents are not
\* equal and a store to one is not seen through the other.
C20_ReferenceSemantics ==
    (prog.fam = "ref" /\ Done(6)) =>
        /\ Lookup("r") = (IF prog.k = 4 THEN Vals[prog.a] ELSE Vals[prog.b])
        /\ Lookup("s") = Bool(prog.k # 4)

\* a closure that received the handle a has stored through its parameter
\* and the new value has been read through b
C20_Witness ==
    /\ prog.fam = "ref" /\ prog.k = 2 /\ prog.a # prog.b /\ Done(6)
    /\ Lookup("a") = Lookup("b") /\ Lookup("a").t = "Address"
    /\ Lookup("r") = Vals[prog.b]

\* C21: every allocation returns a handle different from every handle
\* issued before, and an object placed in the address space is never
\* removed or replaced by an object of the other kind: over every step the
\* objects stay at their addresses with their kind, a step that adds
\* objects adds them at addresses that held none, and the address the next
\* allocation will return lies above every address in use.
C21_FreshStableHandles ==
    [][/\ \A a \in DOMAIN addr_space :
             a \in DOMAIN addr_space' /\ addr_space'[a].k = addr_space[a].k
       /\ \A a \in DOMAIN addr_space' : a < cur_addr'
       /\ cur_addr' >= cur_addr
       /\ Cardinality(DOMAIN addr_space') - Cardinality(DOMAIN addr_space)
             = (cur_addr' - cur_addr) \div AddrStep]_vars

\* closures and tables have been allocated, at least three objects, each
\* at an address of its own
C21_Witness ==
    /\ \E a \in DOMAIN addr_space : addr_space[a].k = "Table"
    /\ \E a \in DOMAIN addr_space : addr_space[a].k = "Function"
    /\ cur_addr >= 3 * AddrStep
    /\ Cardinality(DOMAIN addr_space) * AddrStep = cur_addr

\* C22: when a runtime Error or an uncaught Break reaches the driver the
\* diagnostic is written and the process ends with exit status 1; exit
\* status 0 occurs only on normal completion (the top-level block ran to
\* its end or returned).
C22_ErrorExitsOne ==
    status # "running" =>
        /\ ret.sig \in {"RuntimeError", "Break"} =>
              /\ stderr = report(ret)
              /\ ExitStatus = 1
        /\ ExitStatus = 0 => ret.sig \in {"Ok", "RetResult"}

\* the type names of the specification
TypeNames == {"nil", "boolean", "number", "string", "table", "function"}

\* C23: every type name in a runtime diagnostic is one of nil, boolean,
\* number, string, table, function (the messages that name types carry the
\* names at their even positions), and an arithmetic, concat or comparison
\* error on a table or closure operand names it table or function.
C23_DiagnosticTypeNames ==
    (ret.sig = "RuntimeError" /\ Len(ret.message) > 1) =>
        /\ \A i \in 1..Len(ret.message) : i % 2 = 0 => ret.message[i] \in TypeNames
        /\ (prog.fam = "tyerr" /\ prog.a \in 1..2) =>
              ret.message[2] = <<"table", "function">>[prog.a]

\* C24: evaluating the same expression twice from the same environment
\* stack, with no statement executed in between, yields equal values, for
\* every expression kind, table constructors and function literals
\* included: `local x1, x2 = e, e` binds x1 and x2 to equal values.
C24_EvalTwiceEqual ==
    (prog.fam = "twice" /\ Done(3)) => Lookup("x1") = Lookup("x2")

\* C25: the globals frame is never popped: in every state the environment
\* stack has at least one frame, and over every step the bottom frame stays
\* in place with every name it binds (print among them), whatever blocks,
\* loops, breaks, calls and returns are executed.
C25_GlobalsNeverPopped ==
    [][/\ Len(env_stack) >= 1
       /\ Len(env_stack') >= 1
       /\ "print" \in DOMAIN env_stack'[1]
       /\ \A x \in DOMAIN env_stack[1] : x \in DOMAIN env_stack'[1]]_vars

\* a call that returned from two nested blocks of the closure body has
\* popped every frame above the globals frame
C25_Witness ==
    /\ prog.fam = "callerr" /\ prog.k = 4 /\ Done(2)
    /\ Len(env_stack) = 1
    /\ call_exit.set /\ call_exit.sig = "Ok"
    /\ Lookup("r") = Vals[prog.a]

\* C26: the condition of a while loop is evaluated on every iteration in
\* the scope enclosing the loop, after the frame of the previous body was
\* popped: a local declared in the body never influences it, so
\* `local n = 0; while n < 3 do n = n + 1; local n = 10 end` runs the body
\* three times and leaves n = 3.
C26_WhileConditionScope ==
    (prog.fam = "whl" /\ Done(3)) =>
        /\ Lookup("cnt") = Num(3)
        /\ Lookup("n") = Num(3)

\* C27: the step of a numeric for is evaluated exactly once, before the
\* first iteration: `for i = 1, 6, s` with s = 1 at loop entry runs six
\* times although the body sets s = 2, a step `st()` is called once for a
\* loop of three iterations, and a constant step 2 from 1 to 6 gives three
\* iterations.
C27_StepEvaluatedOnce ==
    (prog.fam = "nfor" /\ Done(4)) => Lookup("r") = Num(<<6, 1, 3>>[prog.k + 1])

\* C28: an assignment evaluates all right-hand expressions left to right,
\* then prefix and key of every TableIndex target (prefix before key,
\* targets left to right), and only then stores in target order:
\* `x1, x2 = x2, x1` swaps, the calls of
\* `mark(3, t)[mark(4, "k")], mark(5, u)[mark(6, "k")] = mark(1, a), mark(2, b)`
\* are made in the order 1..6 and store a in t.k and b in u.k, the key of
\* `x, t[x] = 2, b` is the x of before the statement, and `x, x = a, b`
\* leaves x = b.
C28_AssignOrder ==
    (prog.fam = "order" /\ Done(Len(Block(prog)))) =>
        CASE prog.k = 0 -> Lookup("x1") = Vals[prog.b] /\ Lookup("x2") = Vals[prog.a]
          [] prog.k = 1 -> /\ Lookup("r") = Num(123456)
                           /\ Lookup("x1") = Vals[prog.a]
                           /\ Lookup("x2") = Vals[prog.b]
          [] prog.k = 2 -> /\ Lookup("x") = Num(2)
                           /\ Lookup("r") = Vals[prog.b]
                           /\ Lookup("x1") = Nil
          [] prog.k = 3 -> Lookup("r") = Vals[prog.b]

\* the six calls of mark have been made in the order 1..6 and the two
\* stores into t and u have followed them
C28_Witness ==
    /\ prog.fam = "order" /\ prog.k = 1 /\ prog.a # prog.b /\ Done(5)
    /\ Lookup("r") = Num(123456)
    /\ Lookup("x1") = Vals[prog.a]

\* C29: a read of prefix[key] evaluates the prefix, then the key, and reads
\* the table entry after the key has been evaluated: with t.x = a and a
\* function key that stores t.x = b and returns "x", `r = t[key()]` reads b.
C29_IndexReadsAfterKey ==
    (prog.fam = "key" /\ Done(4)) => Lookup("r") = Vals[prog.b]

\* C30: an assignment `x = e` in a closure body, x bound only in the
\* globals frame, writes the globals frame: after
\* `count = 0; function inc() count = count + 1 end; inc()` the caller
\* reads count = 1 and print(count) prints 1.
C30_GlobalWriteInClosure ==
    (prog.fam = "ginc" /\ Done(5)) =>
        /\ Lookup("r") = Num(1)
        /\ Printed = <<"1">>


\* C31: an if statement runs at most one branch and evaluates no condition
\* after the selected one: with conditions c1, c2, c3 that log their
\* evaluation and branches that log their run, the conditions logged are
\* exactly those up to the first truthy one, and the one branch logged is
\* that condition's (the else branch, if any, when no condition is truthy)
C31_IfSelectsOneBranch ==
    (prog.fam = "ifs" /\ Done(4)) =>
        CASE truthy(CondVals[prog.a]) -> Lookup("r") = Num(1) /\ Lookup("x1") = Num(1)
          [] ~truthy(CondVals[prog.a]) /\ truthy(CondVals[prog.b]) ->
                Lookup("r") = Num(12) /\ Lookup("x1") = Num(2)
          [] ~truthy(CondVals[prog.a]) /\ ~truthy(CondVals[prog.b])
               /\ truthy(CondVals[prog.c]) ->
                Lookup("r") = Num(123) /\ Lookup("x1") = Num(3)
          [] OTHER -> /\ Lookup("r") = Num(123)
                      /\ Lookup("x1") = Num(IF prog.k = 0 THEN 4 ELSE 0)

C31_Witness ==
    /\ prog.fam = "ifs" /\ Done(4)
    /\ ~truthy(CondVals[prog.a]) /\ truthy(CondVals[prog.b]) /\ truthy(CondVals[prog.c])
    /\ Lookup("r") = Num(12) /\ Lookup("x1") = Num(2)

\* C32: `a and b` and `a or b` yield the Boolean truthy(a) AND/OR truthy(b)
\* and short-circuit: with operands that log their evaluation, the right
\* operand of `and` is not evaluated when the left one is falsy, the right
\* operand of `or` is not evaluated when the left one is truthy
C32_LogicalShortCircuit ==
    (prog.fam = "logic" /\ Done(4)) =>
        IF prog.k = 0
        THEN /\ Lookup("r") = Bool(truthy(CondVals[prog.a]) /\ truthy(CondVals[prog.b]))
             /\ Lookup("x1") = Num(IF truthy(CondVals[prog.a]) THEN 12 ELSE 1)
        ELSE /\ Lookup("r") = Bool(truthy(CondVals[prog.a]) \/ truthy(CondVals[prog.b]))
             /\ Lookup("x1") = Num(IF truthy(CondVals[prog.a]) THEN 1 ELSE 12)

C32_Witness ==
    /\ prog.fam = "logic" /\ Done(4) /\ prog.k = 0
    /\ ~truthy(CondVals[prog.a]) /\ truthy(CondVals[prog.b])
    /\ Lookup("r") = Bool(FALSE) /\ Lookup("x1") = Num(1)

\* C33: a program whose function calls itself unconditionally terminates
\* with the runtime error "exceeds the maximum stack sizes": every run of
\* such a program ends, and ends with that error reported
C33_RecursionTerminates ==
    (prog.fam = "rec" /\ status = "running")
        ~> (/\ status = "exited"
            /\ StackOverflow(ret)
            /\ Len(stderr) = 1
            /\ stderr[1].message = <<"exceeds the maximum stack sizes">>)

C33_Witness ==
    /\ prog.fam = "rec" /\ prog.k = 0
    /\ status = "exited"
    /\ StackOverflow(ret)
    /\ Len(stderr) = 1
    /\ stderr[1].message = <<"exceeds the maximum stack sizes">>
    /\ Lookup("done") = Nil

\* C34: a Return that reaches the driver from the top-level block is normal
\* completion: nothing is reported and no statement after the return has
\* run; a Break that reaches the driver is reported as "<break> at line N
\* not inside a loop"
C34_TopLevelReturnBreak ==
    /\ (status # "running" /\ ret.sig = "RetResult") =>
          status = "exited" /\ stderr = <<>>
    /\ (status # "running" /\ ret.sig = "Break") =>
          /\ status = "exited"
          /\ stderr = <<[line |-> ret.line,
                         message |-> <<"<break> at line ", NumToString(ret.line),
                                       " not inside a loop">>]>>
    /\ prog.fam = "top" =>
          /\ Lookup("r") \in {Nil, Vals[prog.a]}
          /\ status # "running" =>
                /\ Lookup("r") = Vals[prog.a]
                /\ ret.sig = (IF prog.k <= 1 THEN "RetResult" ELSE "Break")
                /\ prog.k >= 2 => ret.line = 2

C34_Witness ==
    /\ prog.fam = "top" /\ prog.k = 0 /\ status = "exited"
    /\ ret = RetResult(<<Vals[prog.a]>>)
    /\ stderr = <<>> /\ Lookup("r") = Vals[prog.a]

C34_WitnessBreak ==
    /\ prog.fam = "top" /\ prog.k = 4 /\ status = "exited"
    /\ ret.sig = "Break" /\ Len(stderr) = 1 /\ Lookup("r") = Vals[prog.a]

\* a step that is one iteration of a loop of the lexer
LoopIteration ==
    /\ lexer.fn \in {"lex", "lex_line_string", "lex_long_string"}
    /\ lexer'.fn = lexer.fn
    /\ lexer.pc = "loop" /\ lexer'.pc = "loop"

\* C35: the lexer terminates on every finite input: lex eventually returns
\* (a token sequence or a LexError), and every iteration of a loop of the
\* lexer moves the read position forward, also inside a long string whose
\* content holds a `]` that no `]` follows
C35_LexerTerminates ==
    /\ <>(lexer.fn = "main")
    /\ [][LoopIteration => lexer'.current > lexer.current]_vars

\* the bytes of the source not yet read
unread(L) == SubSeq(L.source, L.current + 1, Len(L.source))

\* the loop of lex_line_string is at a supported escape
AtEscape ==
    /\ lexer.fn = "lex_line_string" /\ lexer.pc = "loop"
    /\ ~at_end(lexer)
    /\ byte(lexer, lexer.current) = "\\"
    /\ look_ahead(lexer).some
    /\ look_ahead(lexer).c \in {"n", "t", "\\", "'", "\""}

\* C36: in a short string a supported escape contributes exactly one
\* character, and scanning resumes at the byte right after the two bytes of
\* the escape: no following byte is skipped, so that a closing quote right
\* after an escape is the next byte looked at
C36_EscapeResumesAfter ==
    [][AtEscape =>
         /\ Len(lexer'.source) = Len(lexer.source) - 1
         /\ lexer'.source[lexer.current + 1] \in {"\n", "\t", "\\", "'", "\""}
         /\ unread(lexer') = SubSeq(lexer.source, lexer.current + 3, Len(lexer.source))
      ]_vars

\* the loop of lex_line_string is at the end of the input or at a newline:
\* the string has no closing quote
Unclosed ==
    /\ lexer.fn = "lex_line_string" /\ lexer.pc = "loop"
    /\ (at_end(lexer) \/ byte(lexer, lexer.current) = "\n")

\* C37: a short string without its closing quote, cut off by a newline or
\* by the end of the input, is reported as a LexError: no STRING token is
\* returned for it, and the lexer fails in no other way than by a LexError
C37_UnclosedStringIsLexError ==
    /\ [](status # "aborted")
    /\ [][Unclosed => lexer'.fn = "main" /\ lexer'.res.sig = "LexError"]_vars
====
